---- MODULE Spec2Model ----
(***************************************************************************)
(* Job orchestration of the Tunes4R download service                       *)
(* (src/api/download_service.py): the global job table, the endpoints that *)
(* create, read and cancel jobs, and the background runner                 *)
(* process_song_download that drives one job song by song (Spec); one job *)
(* of up to 12 songs followed to its end (SpecAlbum); one                  *)
(* download_song_async call followed query by query, with fix_metadata     *)
(* (SpecLadder); one get_album_tracks call (SpecTracks); one              *)
(* enrich_metadata call (SpecEnrich); two single-song jobs whose songs     *)
(* have one output path (SpecShared); and the playlist step of one runner  *)
(* taken again under one name (SpecEmit).                                  *)
(*                                                                         *)
(* Faults.  Inside the background task the model follows: an exception    *)
(* that escapes download_song_async; a print of the runner that raises     *)
(* (lines 1037, 1047, 1092, 1100); os.makedirs raising (line 972); and a   *)
(* playlist file that cannot be opened or written in full.  The request    *)
(* handlers are followed without faults.                                   *)
(*                                                                         *)
(* Scheduling.  The endpoints and the runner are coroutines of one asyncio *)
(* event loop: a coroutine runs without interruption from one await to the *)
(* next.  Every action below is the code between two awaits.               *)
(*                                                                         *)
(* Strings are sequences of atoms; string concatenation is \o.  A job      *)
(* record is a function from the keys the Python dict holds to their       *)
(* values: a key the dict lacks is outside its DOMAIN.  The key            *)
(* updated_at (wall-clock time) is not modelled.                           *)
(***************************************************************************)
EXTENDS Integers, Sequences, FiniteSets, TLC

VARIABLES
    download_status_db, \* the global job table: download_id -> record
    songs,              \* the song list handed to each job's background task
    pc,                 \* where each job's background task stands
    local,              \* the runner's locals: i, completed, failed, downloaded_songs
    inflight,           \* per job, the song indices whose download_song_async is awaited
    playlist_files,     \* the playlist files written: path -> lines
    resp,               \* the response of the latest endpoint call
    cancelled_ids,      \* history: the ids whose cancel request was accepted
    invocations,        \* history: per job, the song indices download_song_async
                        \* was called for, in call order
    ladder,             \* one download_song_async call followed query by query:
                        \* its locals, the output file and a history of its attempts
    resolving,          \* one get_album_tracks call: its arguments, the behaviour
                        \* of the release directory and the list returned
    enriching,          \* one enrich_metadata call: its argument, the behaviour of
                        \* the providers and the record returned
    sharing,            \* two single-song jobs whose songs have one output path:
                        \* the locals of their download_song_async calls, the
                        \* file at the path and the status of each job
    emitting            \* the playlist step of one runner, taken again and again
                        \* under one name: the outcome list, the files, how the
                        \* latest create_m3u_playlist call ended and a history of
                        \* the call before it

vars == <<download_status_db, songs, pc, local, inflight, playlist_files, resp,
          cancelled_ids, invocations, ladder, resolving, enriching, sharing,
          emitting>>

\* the variables that follow one call of a function on its own
call_vars == <<ladder, resolving, enriching, sharing, emitting>>

\* the value of such a variable while no call is followed
Idle == [pc |-> "idle"]

\* the variables of the job table, the endpoints and the runner
job_vars == <<download_status_db, songs, pc, local, inflight, playlist_files, resp,
              cancelled_ids, invocations>>

-----------------------------------------------------------------------------
(* Bounds and program constants *)

\* number of download ids the service hands out in one run of the model
MaxJobs == 1
\* most media of a listing, and most tracks of a medium, the release
\* directory returns when get_album_tracks is followed on its own
MaxMedia == 2
MaxMediumTracks == 2
\* longest track listing the release directory returns for an accepted album
MaxTracks == 2
\* download_album_endpoint rejects more than this many tracks
MaxAlbumTracks == 20
\* most songs of the job followed to its end whose download fails or raises
\* or whose outcome cannot be printed
MaxTroubles == 2

\* most whole lines a playlist write that raises is followed to have left
MaxLeft == 1
\* most outcomes of a list whose playlist step is followed on its own
MaxEmitted == 3

JobIds == 1..MaxJobs

-----------------------------------------------------------------------------
(* Strings *)

\* str.strip(): drop the leading and trailing blanks
RECURSIVE LStrip(_)
LStrip(s) == IF s # <<>> /\ Head(s) = " " THEN LStrip(Tail(s)) ELSE s

RECURSIVE RStrip(_)
RStrip(s) ==
    IF s # <<>> /\ s[Len(s)] = " " THEN RStrip(SubSeq(s, 1, Len(s) - 1)) ELSE s

strip(s) == RStrip(LStrip(s))

\* the output directory of line 971, with the separator os.path.join puts
\* after it
output_dir == <<"downloaded_music/">>

\* os.path.join(output_dir, filename): a file name that begins with "/" is
\* absolute and the directory is dropped.  The atom "/" is the separator
\* character at the head of a string; no other atom begins with one.
join_path(dir, filename) ==
    IF filename # <<>> /\ Head(filename) = "/" THEN filename ELSE dir \o filename

\* f"{song['artist']} - {song['title']}.mp3" joined to the output directory
\* (lines 90-91)
output_path(song) ==
    join_path(output_dir, song.artist \o <<" - ">> \o song.title \o <<".mp3">>)

-----------------------------------------------------------------------------
(* The job table *)

\* download_status_db[download_id] = {"status": status, **kwargs}
update_download_status(db, download_id, status, kwargs) ==
    [k \in DOMAIN db \cup {download_id} |->
        IF k = download_id THEN [status |-> status] @@ kwargs ELSE db[k]]

\* download_status_db.get(download_id): None is modelled as the empty record
get_download_status(db, download_id) ==
    IF download_id \in DOMAIN db THEN db[download_id] ELSE <<>>

\* a variant that lets every status but the three final ones be cancelled
Cancellable_AnyNonFinal(db, download_id) ==
    /\ download_id \in DOMAIN db
    /\ get_download_status(db, download_id).status
           \in {"starting", "downloading", "searching_tracks"}

\* status_data and status_data.get('status') in ['starting', 'downloading']
Cancellable(db, download_id) ==
    /\ download_id \in DOMAIN db
    /\ get_download_status(db, download_id).status \in {"starting", "downloading"}

\* cancel_download_status: <<return value, the table afterwards>>
cancel_download_status(db, download_id) ==
    IF Cancellable(db, download_id)
    THEN <<TRUE, update_download_status(db, download_id, "cancelled", <<>>)>>
    ELSE <<FALSE, db>>

-----------------------------------------------------------------------------
(* Tracklist resolution (get_album_tracks) *)

\* The behaviour of the release directory for one lookup:
\*   search: "match" (200, a release), "nomatch" (200, no release),
\*           "status" (a non-200 answer), "raise" (requests raises / times out)
\*   detail: "ok" (200), "status" (non-200), "raise"
\*   media : the listing, a sequence of media, each a sequence of tracks
\*           [recording |-> has a recording, title |-> its title, number |-> its number]
TrackTitle(k) == <<"T" \o ToString(k)>>

Listing(n) ==
    << [k \in 1..n |-> [recording |-> TRUE, title |-> TrackTitle(k), number |-> k]] >>

\* a variant that emits a record for every track, with a recording or not
RECURSIVE MediumTracks_All(_, _, _)
MediumTracks_All(artist_clean, album_clean, medium) ==
    IF medium = <<>> THEN <<>>
    ELSE LET track == Head(medium)
         IN  << [title |-> track.title,
                 artist |-> artist_clean,
                 album |-> album_clean,
                 query |-> artist_clean \o <<" \"">> \o track.title
                               \o <<"\" song official audio">>,
                 track_number |-> track.number] >>
             \o MediumTracks_All(artist_clean, album_clean, Tail(medium))

\* for medium in media: for track in medium: if track.get('recording'): append
RECURSIVE MediumTracks(_, _, _)
MediumTracks(artist_clean, album_clean, medium) ==
    IF medium = <<>> THEN <<>>
    ELSE LET track == Head(medium)
             rest == MediumTracks(artist_clean, album_clean, Tail(medium))
         IN  IF track.recording
             THEN << [title |-> track.title,
                      artist |-> artist_clean,
                      album |-> album_clean,
                      query |-> artist_clean \o <<" \"">> \o track.title
                                    \o <<"\" song official audio">>,
                      track_number |-> track.number] >> \o rest
             ELSE rest

RECURSIVE MediaTracks(_, _, _)
MediaTracks(artist_clean, album_clean, media) ==
    IF media = <<>> THEN <<>>
    ELSE MediumTracks(artist_clean, album_clean, Head(media))
            \o MediaTracks(artist_clean, album_clean, Tail(media))

\* the number of placeholders the fallback stops at
SyntheticLimit == 12

album_prefixes == <<"Track", "Song">>              \* prefix.title()
common_suffixes == <<"", " (part 1)", " (part 2)">>

SyntheticTrack(artist_clean, album_clean, i, p, s) ==
    [title |-> <<album_prefixes[p], " ", ToString(i)>>
                  \o (IF common_suffixes[s] = "" THEN <<>> ELSE <<common_suffixes[s]>>),
     artist |-> artist_clean,
     album |-> album_clean,
     query |-> artist_clean \o <<" \"">> \o album_clean \o <<"\" song ">>
                  \o <<ToString(i), " -individual track-">>]

\* the three nested loops of the fallback; a break leaves the suffix loop only,
\* the check after the prefix loop leaves the outer loop
RECURSIVE SyntheticLoop(_, _, _, _, _, _)
SyntheticLoop(artist_clean, album_clean, i, p, s, tracks) ==
    IF i > SyntheticLimit THEN tracks
    ELSE IF p > Len(album_prefixes)
         THEN IF Len(tracks) >= SyntheticLimit THEN tracks
              ELSE SyntheticLoop(artist_clean, album_clean, i + 1, 1, 1, tracks)
    ELSE IF s > Len(common_suffixes)
         THEN SyntheticLoop(artist_clean, album_clean, i, p + 1, 1, tracks)
    ELSE LET t2 == Append(tracks, SyntheticTrack(artist_clean, album_clean, i, p, s))
         IN  IF Len(t2) >= SyntheticLimit
             THEN SyntheticLoop(artist_clean, album_clean, i, p + 1, 1, t2)
             ELSE SyntheticLoop(artist_clean, album_clean, i, p, s + 1, t2)

\* a variant that generates the placeholders of the first index only
SyntheticTracks_FirstIndex(artist_clean, album_clean) ==
    SubSeq(SyntheticLoop(artist_clean, album_clean, 1, 1, 1, <<>>), 1, 6)

SyntheticTracks(artist_clean, album_clean) ==
    LET tracks == SyntheticLoop(artist_clean, album_clean, 1, 1, 1, <<>>)
    IN  SubSeq(tracks, 1, IF Len(tracks) < SyntheticLimit THEN Len(tracks) ELSE SyntheticLimit)

\* a variant that returns the listing's records even when there are none
get_album_tracks_NoFallback(artist, album, dir) ==
    LET artist_clean == strip(artist)
        album_clean == strip(album)
    IN  IF dir.search = "raise" \/ (dir.search = "match" /\ dir.detail = "raise")
        THEN << [title |-> album, artist |-> artist, album |-> album,
                 query |-> artist \o <<" ">> \o album \o <<" full album official">>] >>
        ELSE IF dir.search = "match" /\ dir.detail = "ok"
        THEN MediaTracks(artist_clean, album_clean, dir.media)
        ELSE SyntheticTracks(artist_clean, album_clean)

get_album_tracks(artist, album, dir) ==
    LET artist_clean == strip(artist)
        album_clean == strip(album)
        listed == MediaTracks(artist_clean, album_clean, dir.media)
    IN  IF dir.search = "raise" \/ (dir.search = "match" /\ dir.detail = "raise")
        THEN << [title |-> album, artist |-> artist, album |-> album,
                 query |-> artist \o <<" ">> \o album \o <<" full album official">>] >>
        ELSE IF dir.search = "match" /\ dir.detail = "ok" /\ listed # <<>>
        THEN listed
        ELSE SyntheticTracks(artist_clean, album_clean)

-----------------------------------------------------------------------------
(* Requests the model submits *)

\* the bodies of POST /download/song: one with blanks around title and
\* artist, one whose artist begins with the path separator
SongRequests ==
    { [title |-> <<" ", "bad guy">>, artist |-> <<"Billie Eilish", " ">>, album |-> <<>>],
      [title |-> <<"Intro">>, artist |-> <<" ", "/", "tmp/AC">>, album |-> <<>>] }

AlbumRequests == { [artist |-> <<"Daft Punk">>, album |-> <<"Discovery", " ">>] }

\* the directory answers with a release of two tracks, with a release of
\* more tracks than an album may have, or the lookup raises
DirectoryResults ==
    { [search |-> "match", detail |-> "ok", media |-> Listing(n)] :
          n \in {2, MaxAlbumTracks + 1} }
    \cup { [search |-> "raise", detail |-> "ok", media |-> <<>>] }

\* the arguments get_album_tracks is called with when followed on its own
ResolverRequests ==
    AlbumRequests \cup { [artist |-> <<" ", "Air">>, album |-> <<"Moon Safari">>] }

\* medium m with one track per flag: the track has a recording or not
MediumOf(m, flags) ==
    [k \in 1..Len(flags) |->
        [recording |-> flags[k], title |-> TrackTitle(10 * m + k), number |-> k]]

Mediums(m) ==
    UNION { { MediumOf(m, flags) : flags \in [1..n -> BOOLEAN] } : n \in 0..MaxMediumTracks }

\* the listings of up to MaxMedia media
Listings ==
    UNION { { listing \in [1..c -> UNION { Mediums(m) : m \in 1..c }] :
                \A m \in 1..c : listing[m] \in Mediums(m) } : c \in 0..MaxMedia }

\* every behaviour of the release directory: a match whose detail answers
\* with a listing, answers non-200 or raises; no match; a non-200 answer to
\* the search; the search raising or timing out
ResolverDirectories ==
    { [search |-> "match", detail |-> "ok", media |-> listing] : listing \in Listings }
    \cup { [search |-> "match", detail |-> d, media |-> <<>>] : d \in {"status", "raise"} }
    \cup { [search |-> sr, detail |-> "ok", media |-> <<>>] :
              sr \in {"nomatch", "status", "raise"} }

\* the call is made
StartResolving(req, dir) ==
    [pc |-> "call", artist |-> req.artist, album |-> req.album, dir |-> dir,
     tracks |-> <<>>]

\* get_album_tracks returns its list
get_album_tracks_returns ==
    /\ resolving.pc = "call"
    /\ resolving' = [resolving EXCEPT
                        !.pc = "returned",
                        !.tracks = get_album_tracks(resolving.artist, resolving.album,
                                                    resolving.dir)]
    /\ UNCHANGED <<job_vars, ladder, enriching, sharing, emitting>>

-----------------------------------------------------------------------------
(* enrich_metadata: one song record merged with what the recording         *)
(* directory (MusicBrainz), the cover archive and the two lyric sites      *)
(* answer.  The calls are blocking requests.get calls: the whole function  *)
(* is one step.  A response is [kind |-> "raise"] (timeout, connection     *)
(* error), [kind |-> "status"] (any status but 200) or [kind |-> "ok"]     *)
(* with the decoded body.  A dict is a function from its keys.             *)

\* dict.copy()
copy_TitleArtist(song) == [k \in {"title", "artist"} |-> song[k]]

copy(song) == song

\* d[key] = value
setitem(d, key, value) ==
    [k \in DOMAIN d \cup {key} |-> IF k = key THEN value ELSE d[k]]

\* d.get(key) of a string-valued key: <<>> stands for None and for ''
get(d, key) == IF key \in DOMAIN d THEN d[key] ELSE <<>>

\* the characters of the atoms lyrics are made of
chars_of ==
    (" " :> 1) @@ ("la la" :> 5) @@ ("\n" :> 1)
    @@ ("White shirt now red" :> 19) @@ ("my bloody nose" :> 14)

\* len(text)
RECURSIVE len(_)
len(text) == IF text = <<>> THEN 0 ELSE chars_of[Head(text)] + len(Tail(text))

\* ', '.join(names)
RECURSIVE join(_)
join(names) ==
    IF Len(names) <= 1 THEN (IF names = <<>> THEN <<>> ELSE Head(names))
    ELSE Head(names) \o <<", ">> \o join(Tail(names))

\* get_album_cover_art: the small thumbnail of the front image, else of the
\* first image; None when there is no image, on any status but 200 and on
\* every exception (an image without thumbnails included)
get_album_cover_art(cover) ==
    IF cover.kind # "ok" \/ cover.images = <<>> THEN <<>>
    ELSE LET fronts == SelectSeq(cover.images, LAMBDA img : get(img, "front") = <<"true">>)
             chosen == IF fronts # <<>> THEN Head(fronts) ELSE Head(cover.images)
         IN  get(chosen, "small")

\* the lyrics.ovh part of get_song_lyrics
lyrics_ovh(ovh) ==
    IF ovh.kind = "ok" /\ get(ovh.data, "lyrics") # <<>> /\ len(ovh.data.lyrics) > 10
    THEN strip(ovh.data.lyrics)
    ELSE <<>>

\* the lrclib.net part: the first result whose names match and whose plain
\* lyrics are longer than 20 characters
RECURSIVE lyrics_lrclib_results(_)
lyrics_lrclib_results(results) ==
    IF results = <<>> THEN <<>>
    ELSE LET result == Head(results)
             lyrics == get(result, "plainLyrics")
         IN  IF result.names_match /\ lyrics # <<>> /\ len(lyrics) > 20
             THEN lyrics
             ELSE lyrics_lrclib_results(Tail(results))

lyrics_lrclib(lrclib) ==
    IF lrclib.kind = "ok" THEN lyrics_lrclib_results(lrclib.results) ELSE <<>>

\* get_song_lyrics: lyrics.ovh first, lrclib.net when it gave nothing
get_song_lyrics(ovh, lrclib) ==
    IF lyrics_ovh(ovh) # <<>>
    THEN [lyrics |-> lyrics_ovh(ovh), consulted |-> <<"lyrics.ovh">>]
    ELSE [lyrics |-> lyrics_lrclib(lrclib), consulted |-> <<"lyrics.ovh", "lrclib">>]

\* the tags with a positive count, in order
genre_tags(tags) ==
    LET counted == SelectSeq(tags, LAMBDA tag : "count" \in DOMAIN tag /\ tag.count > 0)
    IN  [k \in 1..Len(counted) |-> counted[k].name]

\* a tag without a name makes the comprehension raise KeyError
tags_raise(tags) ==
    \E k \in 1..Len(tags) :
        /\ "count" \in DOMAIN tags[k] /\ tags[k].count > 0
        /\ "name" \notin DOMAIN tags[k]

\* the media of all releases, in release order
RECURSIVE all_media(_)
all_media(releases) ==
    IF releases = <<>> THEN <<>>
    ELSE (IF "media" \in DOMAIN Head(releases) THEN Head(releases).media ELSE <<>>)
         \o all_media(Tail(releases))

\* the track loop of one medium: the first track of the recording sets the
\* track number and the duration it carries, and ends the loop
RECURSIVE medium_tracks(_, _, _)
medium_tracks(enhanced_song, tracks, recording_id) ==
    IF tracks = <<>> THEN enhanced_song
    ELSE LET track == Head(tracks)
         IN  IF "recording" \in DOMAIN track /\ get(track.recording, "id") = recording_id
             THEN LET numbered == IF get(track, "number") # <<>>
                                  THEN setitem(enhanced_song, "track_number", track.number)
                                  ELSE enhanced_song
                  IN  IF "length" \in DOMAIN track /\ track.length # 0
                      THEN setitem(numbered, "duration_ms", track.length)
                      ELSE numbered
             ELSE medium_tracks(enhanced_song, Tail(tracks), recording_id)

RECURSIVE media_tracks(_, _, _)
media_tracks(enhanced_song, media, recording_id) ==
    IF media = <<>> THEN enhanced_song
    ELSE media_tracks(medium_tracks(enhanced_song, Head(media), recording_id),
                      Tail(media), recording_id)

\* the recording's data written over the copy, field by field
merge_recording(enhanced_song, recording, cover) ==
    LET releases == IF "releases" \in DOMAIN recording THEN recording.releases ELSE <<>>
        release == Head(releases)
        tags == IF "tags" \in DOMAIN recording THEN recording.tags ELSE <<>>
        titled == IF get(recording, "title") # <<>>
                  THEN setitem(enhanced_song, "title", recording.title)
                  ELSE enhanced_song
        credits == IF "artist-credit" \in DOMAIN recording
                   THEN recording["artist-credit"] ELSE <<>>
        credited == IF credits # <<>> /\ get(Head(credits), "name") # <<>>
                    THEN setitem(titled, "artist", Head(credits).name)
                    ELSE titled
        released == IF releases # <<>> /\ get(release, "title") # <<>>
                    THEN setitem(credited, "album", release.title)
                    ELSE credited
        asked_cover == releases # <<>> /\ get(release, "id") # <<>>
        covered == IF asked_cover /\ get_album_cover_art(cover) # <<>>
                   THEN setitem(released, "cover_url", get_album_cover_art(cover))
                   ELSE released
        tagged == IF genre_tags(tags) # <<>>
                  THEN setitem(covered, "genre", join(genre_tags(tags)))
                  ELSE covered
    IN  [raised |-> tags_raise(tags),
         consulted |-> IF asked_cover THEN <<"coverart">> ELSE <<>>,
         song |-> IF tags_raise(tags) THEN covered
                  ELSE media_tracks(tagged, all_media(releases), get(recording, "id"))]

\* enrich_metadata(song, filepath): the record returned and the providers
\* asked, in order.  Every exception of the body returns the argument.
enrich_metadata(song, providers) ==
    LET enhanced_song == copy(song)
        directory == providers.directory
    IN  IF directory.kind = "raise"
        THEN [result |-> song, consulted |-> <<"musicbrainz">>]
        ELSE LET hit == directory.kind = "ok" /\ directory.recordings # <<>>
                 merged == IF hit
                           THEN merge_recording(enhanced_song, Head(directory.recordings),
                                                providers.cover)
                           ELSE [raised |-> FALSE, consulted |-> <<>>, song |-> enhanced_song]
                 found == get_song_lyrics(providers.ovh, providers.lrclib)
             IN  IF merged.raised
                 THEN [result |-> song, consulted |-> <<"musicbrainz">> \o merged.consulted]
                 ELSE [result |-> IF found.lyrics # <<>>
                                  THEN setitem(merged.song, "lyrics", found.lyrics)
                                  ELSE merged.song,
                       consulted |-> <<"musicbrainz">> \o merged.consulted \o found.consulted]

\* the records enrich_metadata is followed for: a single-song request, an
\* album track that get_album_tracks resolved, and a record that already
\* carries enrichment fields
EnrichSongs ==
    { [title |-> <<"bad guy">>, artist |-> <<"Billie Eilish">>,
       album |-> <<"Unknown Album">>,
       query |-> <<"Billie Eilish", " ", "bad guy", " official audio lyrics">>],
      [title |-> <<"T11">>, artist |-> <<"Daft Punk">>, album |-> <<"Discovery">>,
       query |-> <<"Daft Punk", " \"", "T11", "\" song official audio">>, track_number |-> 1],
      [title |-> <<"bad guy">>, artist |-> <<"Billie Eilish">>,
       lyrics |-> <<"la la">>, genre |-> <<"pop">>, cover_url |-> <<"file:cover.jpg">>,
       duration_ms |-> 1000] }

\* the recordings the directory answers with
EnrichRecordings ==
    { ("id" :> <<"rec1">>) @@ ("title" :> <<"Bad Guy">>)
        @@ ("artist-credit" :> << [name |-> <<"Billie Eilish (US)">>] >>)
        @@ ("releases" :> << ("id" :> <<"rel1">>) @@ ("title" :> <<"WWAFAWDWG">>)
                             @@ ("media" :> << << ("recording" :> [id |-> <<"rec0">>]) @@ ("number" :> <<"1">>)
                                                   @@ ("length" :> 100),
                                                  ("recording" :> [id |-> <<"rec1">>]) @@ ("number" :> <<"2">>)
                                                   @@ ("length" :> 194000) >> >>) >>)
        @@ ("tags" :> << [name |-> <<"pop">>, count |-> 3], [name |-> <<"misc">>, count |-> 0],
                         [name |-> <<"electropop">>, count |-> 1] >>),
      ("id" :> <<"rec1">>) @@ ("title" :> <<"Bad Guy">>),
      ("id" :> <<"rec1">>) @@ ("title" :> <<>>)
        @@ ("releases" :> << ("title" :> <<"Single">>)
                             @@ ("media" :> << << ("recording" :> [id |-> <<"rec1">>]) @@ ("length" :> 0) >> >>) >>),
      ("id" :> <<"rec1">>) @@ ("title" :> <<"Bad Guy">>)
        @@ ("releases" :> << ("id" :> <<"rel1">>) @@ ("title" :> <<"WWAFAWDWG">>) >>)
        @@ ("tags" :> << [count |-> 2] >>) }

DirectoryResponses ==
    { [kind |-> "raise"], [kind |-> "status"], [kind |-> "ok", recordings |-> <<>>] }
    \cup { [kind |-> "ok", recordings |-> <<recording>>] : recording \in EnrichRecordings }

CoverResponses ==
    { [kind |-> "raise"], [kind |-> "status"], [kind |-> "ok", images |-> <<>>],
      [kind |-> "ok", images |-> << [small |-> <<"http://cover/back">>],
                                    [front |-> <<"true">>, small |-> <<"http://cover/front">>] >>],
      [kind |-> "ok", images |-> << [front |-> <<"true">>] >>] }

OvhResponses ==
    { [kind |-> "raise"], [kind |-> "status"], [kind |-> "ok", data |-> <<>>],
      [kind |-> "ok", data |-> [lyrics |-> <<" ", "la la", " ">>]],
      [kind |-> "ok", data |-> [lyrics |-> <<" ", "White shirt now red", " ">>]] }

LrclibResponses ==
    { [kind |-> "raise"], [kind |-> "status"], [kind |-> "ok", results |-> <<>>],
      [kind |-> "ok",
       results |-> << [names_match |-> FALSE,
                       plainLyrics |-> <<"White shirt now red", "\n", "la la">>],
                      [names_match |-> TRUE, plainLyrics |-> <<"White shirt now red">>],
                      [names_match |-> TRUE,
                       plainLyrics |-> <<"White shirt now red", "\n", "my bloody nose">>] >>] }

EnrichProviders ==
    [directory : DirectoryResponses, cover : CoverResponses,
     ovh : OvhResponses, lrclib : LrclibResponses]

-----------------------------------------------------------------------------
(* One song's acquisition, as the runner sees it (download_song_async) *)

\* a variant of the ladder that tries the five patterns after the override
search_queries_OverrideFirst(song) ==
    LET artist_clean == strip(song.artist)
        title_clean == strip(song.title)
    IN  (IF "query" \in DOMAIN song /\ song.query # <<>> THEN <<song.query>> ELSE <<>>)
        \o << artist_clean \o <<" ">> \o title_clean \o <<" official">>,
               artist_clean \o <<" ">> \o title_clean,
               title_clean \o <<" ">> \o artist_clean,
               artist_clean \o <<" ">> \o title_clean \o <<" audio">>,
               artist_clean \o <<" ">> \o title_clean \o <<" official audio lyrics">> >>

\* a variant of the ladder that tries the five patterns whatever the song holds
search_queries_FivePatterns(song) ==
    LET artist_clean == strip(song.artist)
        title_clean == strip(song.title)
    IN  << artist_clean \o <<" ">> \o title_clean \o <<" official">>,
           artist_clean \o <<" ">> \o title_clean,
           title_clean \o <<" ">> \o artist_clean,
           artist_clean \o <<" ">> \o title_clean \o <<" audio">>,
           artist_clean \o <<" ">> \o title_clean \o <<" official audio lyrics">> >>

\* the search ladder: the override alone, or the five patterns
search_queries(song) ==
    IF "query" \in DOMAIN song /\ song.query # <<>>
    THEN <<song.query>>
    ELSE LET artist_clean == strip(song.artist)
             title_clean == strip(song.title)
         IN  << artist_clean \o <<" ">> \o title_clean \o <<" official">>,
                artist_clean \o <<" ">> \o title_clean,
                title_clean \o <<" ">> \o artist_clean,
                artist_clean \o <<" ">> \o title_clean \o <<" audio">>,
                artist_clean \o <<" ">> \o title_clean \o <<" official audio lyrics">> >>

\* the message returned when no query of the ladder succeeded
AllFailed(song, last_error) ==
    <<"No suitable video found after trying ", ToString(Len(search_queries(song))),
      " different search queries. Last error: ">> \o last_error

\* "403" in error_msg: the text holds the given piece
Contains(text, piece) == \E k \in 1..Len(text) : text[k] = piece

\* the error of an attempt whose tool run exited (lines 168-175): stderr and
\* stdout stripped, "Unknown error" and "No output" standing for empty ones
\* (the cut of stdout at 200 characters is not modelled: the outputs are short)
detailed_error(returncode, stderr, stdout) ==
    LET error_msg == IF stderr # <<>> THEN strip(stderr) ELSE <<"Unknown error">>
        out == IF stdout # <<>> THEN strip(stdout) ELSE <<"No output">>
    IN  <<"yt-dlp failed (exit code: ", ToString(returncode), "): ">> \o error_msg
            \o (IF out # <<>> THEN <<" | stdout: ">> \o out \o <<"...">> ELSE <<>>)

\* The answers the providers give while a job's song is enriched: the
\* directory is out of reach, or it knows the recording under another title
\* and artist name.
OutOfReach ==
    [directory |-> [kind |-> "raise"], cover |-> [kind |-> "raise"],
     ovh |-> [kind |-> "raise"], lrclib |-> [kind |-> "raise"]]

SongEnrichments ==
    { OutOfReach,
      [directory |-> [kind |-> "ok",
                      recordings |-> << ("id" :> <<"rec1">>) @@ ("title" :> <<"Bad Guy">>)
                          @@ ("artist-credit" :> << [name |-> <<"Billie Eilish (US)">>] >>) >>],
       cover |-> [kind |-> "status"], ovh |-> [kind |-> "status"],
       lrclib |-> [kind |-> "status"]] }

\* a variant that names the file after the enriched record
returned_path_Enhanced(song, enhanced_song) == output_path(enhanced_song)

\* the path a successful call returns (line 160): output_path, built at
\* lines 90-91 from the song the call was given; enhanced_song goes to
\* fix_metadata only
returned_path(song, enhanced_song) == output_path(song)

\* What the awaited download_song_async call can hand back to the runner:
\* "ok" (True, output_path), "failed" (False, the message of line 204 after
\* the last query), "tag_failed" (False, "Metadata fix failed", line 160), or
\* "raised", an exception that escapes it.  enhanced_song is what
\* enrich_metadata returned where the call got that far.
DownloadKinds == {"ok", "failed", "tag_failed", "raised"}

\* the kinds of return before which enrich_metadata ran (line 158)
Enriched(kind) == kind \in {"ok", "tag_failed"}

DownloadResult(song, kind, enhanced_song) ==
    IF kind = "ok"
    THEN [raised |-> FALSE, success |-> TRUE, msg |-> returned_path(song, enhanced_song)]
    ELSE IF kind = "failed"
    THEN [raised |-> FALSE, success |-> FALSE,
          msg |-> AllFailed(song, detailed_error(1, <<>>, <<>>))]
    ELSE IF kind = "tag_failed"
    THEN [raised |-> FALSE, success |-> FALSE, msg |-> <<"Metadata fix failed">>]
    ELSE [raised |-> TRUE, success |-> FALSE, msg |-> <<"unexpected exception">>]

-----------------------------------------------------------------------------
(* Playlist emission (create_m3u_playlist) *)

playlist_name(download_id) == join_path(output_dir, <<ToString(download_id), ".m3u">>)

RECURSIVE playlist_entries(_)
playlist_entries(successful_songs) ==
    IF successful_songs = <<>> THEN <<>>
    ELSE LET song == Head(successful_songs)
         IN  << <<"#EXTINF:240,">> \o song.artist \o <<" - ">> \o song.title,
                song.artist \o <<" - ">> \o song.title \o <<".mp3">> >>
             \o playlist_entries(Tail(successful_songs))

\* the lines written to the playlist file
create_m3u_playlist(successful_songs) ==
    << <<"#EXTM3U">>, <<"#PLAYLIST:Tunes4R Download Service">> >>
        \o playlist_entries(successful_songs)

\* with open(playlist_path, 'w') ... f.write: the file is created or
\* truncated, then holds the lines written
write_file(files, path, lines) ==
    [f \in DOMAIN files \cup {path} |-> IF f = path THEN lines ELSE files[f]]

\* a variant of the filter that keeps every outcome
successful_All(downloaded_songs) == downloaded_songs

\* [s for s in downloaded_songs if s['status'] == 'completed']
RECURSIVE successful(_)
successful(downloaded_songs) ==
    IF downloaded_songs = <<>> THEN <<>>
    ELSE (IF Head(downloaded_songs).status = "completed"
          THEN <<Head(downloaded_songs)>> ELSE <<>>)
         \o successful(Tail(downloaded_songs))

-----------------------------------------------------------------------------
(* The background runner (process_song_download) *)

\* the keyword arguments of the runner's status updates
Counters(total, completed, failed, progress, downloaded_songs) ==
    [total_songs |-> total, completed_songs |-> completed, failed_songs |-> failed,
     progress |-> progress, songs |-> downloaded_songs]

\* a variant that counts the songs before the one just processed
Progress_Before(i, total) == (i * 100) \div total

\* int(((i + 1) / len(songs)) * 100); for 1 <= len(songs) <= 20 the float
\* expression equals the integer floor
Progress(i, total) == ((i + 1) * 100) \div total

\* the entry appended to downloaded_songs for one song
Outcome(song, r) ==
    IF r.raised
    THEN [title |-> song.title, artist |-> song.artist, album |-> song.album,
          error |-> r.msg, status |-> "error"]
    ELSE IF r.success
    THEN [title |-> song.title, artist |-> song.artist, album |-> song.album,
          filepath |-> r.msg, status |-> "completed"]
    ELSE [title |-> song.title, artist |-> song.artist, album |-> song.album,
          error |-> r.msg, status |-> "failed"]

\* if len(songs) > 1 and completed > 0 (line 1094)
wants_playlist(total, completed) == total > 1 /\ completed > 0

Min(a, b) == IF a < b THEN a ELSE b

\* what stands in a playlist file for a line that reached it in part
IncompleteLine == <<"(incomplete line)">>

\* How a create_m3u_playlist call that is to write lines can end: it returns
\* with the file written; open() raises and no file is made; or open() has
\* created (or truncated) the file and a write or the closing flush raises,
\* which leaves the lines that reached the file, the last one possibly in
\* part.
EmitterOutcomes(lines) ==
    { [kind |-> "returned"], [kind |-> "open_raises"] }
    \cup { [kind |-> "write_raises", left |-> SubSeq(lines, 1, n) \o part] :
              n \in 0..Min(Len(lines), MaxLeft), part \in {<<>>, <<IncompleteLine>>} }

\* the files after a create_m3u_playlist call for path that ended as how
emitted(files, path, lines, how) ==
    IF how.kind = "open_raises" THEN files
    ELSE write_file(files, path, IF how.kind = "returned" THEN lines ELSE how.left)

\* After the loop (lines 1090-1108).  The print of line 1092 lies outside
\* every try: if it raises the runner ends there.  Else, for a multi-song
\* job with at least one success, the playlist is written and its path
\* attached; an exception of create_m3u_playlist or of the print of line 1100
\* is caught and skips the update of line 1101.  The field emitter of the
\* locals is a history of how the create_m3u_playlist call ended.
AfterLoop(j, db, loc, inf) ==
    /\ pc' = [pc EXCEPT ![j] = "done"]
    /\ inflight' = [inflight EXCEPT ![j] = inf]
    /\ \/ \* the print of line 1092 raises
          /\ local' = [local EXCEPT ![j] = loc]
          /\ playlist_files' = playlist_files
          /\ download_status_db' = db
       \/ IF wants_playlist(Len(songs[j]), loc.completed)
             /\ successful(loc.downloaded_songs) # <<>>
          THEN LET lines == create_m3u_playlist(successful(loc.downloaded_songs))
               IN  \E how \in EmitterOutcomes(lines), printed \in BOOLEAN :
                     /\ local' = [local EXCEPT ![j] =
                            [loc EXCEPT !.emitter = IF how.kind = "returned"
                                                    THEN "returned" ELSE "raised"]]
                     /\ playlist_files' = emitted(playlist_files, playlist_name(j), lines, how)
                     /\ download_status_db' =
                            IF how.kind = "returned" /\ printed
                            THEN update_download_status(db, j, "completed",
                                     [playlist_path |-> playlist_name(j),
                                      songs |-> loc.downloaded_songs])
                            ELSE db
          ELSE /\ local' = [local EXCEPT ![j] = loc]
               /\ playlist_files' = playlist_files
               /\ download_status_db' = db

\* a variant that launches the downloads of all remaining songs at once
\* instead of awaiting them one by one
EnterIteration_Concurrent(j, i, db, loc, inf) ==
    IF i >= Len(songs[j])
    THEN AfterLoop(j, db, loc, inf)
    ELSE IF Len(songs[j]) = 1
    THEN /\ download_status_db' =
              update_download_status(db, j, "downloading", Counters(1, 0, 0, 10, <<>>))
         /\ pc' = [pc EXCEPT ![j] = "sleep_10"]
         /\ local' = [local EXCEPT ![j] = [loc EXCEPT !.i = i]]
         /\ inflight' = [inflight EXCEPT ![j] = inf]
         /\ playlist_files' = playlist_files
    ELSE /\ download_status_db' = db
         /\ pc' = [pc EXCEPT ![j] = "download"]
         /\ local' = [local EXCEPT ![j] = [loc EXCEPT !.i = i]]
         /\ inflight' = [inflight EXCEPT ![j] = inf \cup (i..(Len(songs[j]) - 1))]
         /\ playlist_files' = playlist_files

\* The head of loop iteration i up to its first await (lines 989-1017): a
\* single-song job shows progress 10 and sleeps; a multi-song job calls
\* download_song_async at once.  Past the last song the loop is left.
EnterIteration(j, i, db, loc, inf) ==
    IF i >= Len(songs[j])
    THEN AfterLoop(j, db, loc, inf)
    ELSE IF Len(songs[j]) = 1
    THEN /\ download_status_db' =
              update_download_status(db, j, "downloading", Counters(1, 0, 0, 10, <<>>))
         /\ pc' = [pc EXCEPT ![j] = "sleep_10"]
         /\ local' = [local EXCEPT ![j] = [loc EXCEPT !.i = i]]
         /\ inflight' = [inflight EXCEPT ![j] = inf]
         /\ playlist_files' = playlist_files
    ELSE /\ download_status_db' = db
         /\ pc' = [pc EXCEPT ![j] = "download"]
         /\ local' = [local EXCEPT ![j] = [loc EXCEPT !.i = i]]
         /\ inflight' = [inflight EXCEPT ![j] = inf \cup {i}]
         /\ playlist_files' = playlist_files

\* The status written once a song's outcome is appended (lines 1056-1078),
\* then the inter-song sleep of a multi-song job.
FinishSong(j, db, loc, inf) ==
    LET total == Len(songs[j])
        total_processed == loc.completed + loc.failed
        status == IF total_processed < total THEN "downloading"
                  ELSE IF loc.failed > 0 THEN "error" ELSE "completed"
        db2 == update_download_status(db, j, status,
                   Counters(total, loc.completed, loc.failed,
                            Progress(loc.i, total), loc.downloaded_songs))
    IN  IF total > 1
        THEN /\ download_status_db' = db2
             /\ pc' = [pc EXCEPT ![j] = "sleep_next"]
             /\ local' = [local EXCEPT ![j] = loc]
             /\ inflight' = [inflight EXCEPT ![j] = inf]
             /\ playlist_files' = playlist_files
        ELSE EnterIteration(j, loc.i + 1, db2, loc, inf)

\* history: the calls of download_song_async this step of job j has started
\* (line 1017), appended in index order
RECURSIVE CallsStarted(_)
CallsStarted(started) ==
    IF started = {} THEN <<>>
    ELSE LET first == CHOOSE k \in started : \A m \in started : k <= m
         IN  <<first>> \o CallsStarted(started \ {first})

RecordCalls(j) ==
    invocations' = [invocations EXCEPT ![j] = @ \o CallsStarted(inflight'[j] \ inflight[j])]

\* The task starts (lines 971-987): os.makedirs of line 972 lies outside
\* every try, and if it raises the task ends there with the record as the
\* endpoint left it; else status downloading, then the first iteration.
process_start(j) ==
    /\ pc[j] = "queued"
    /\ \/ /\ pc' = [pc EXCEPT ![j] = "done"]
          /\ UNCHANGED <<download_status_db, local, inflight, playlist_files>>
       \/ EnterIteration(j, 0,
              update_download_status(download_status_db, j, "downloading",
                  Counters(Len(songs[j]), 0, 0, 0, <<>>)),
              local[j], inflight[j])
    /\ RecordCalls(j)
    /\ UNCHANGED <<songs, resp, cancelled_ids, call_vars>>

\* single song, after the first sleep(0.5): progress 25, then the download
after_sleep_10(j) ==
    /\ pc[j] = "sleep_10"
    /\ download_status_db' =
          update_download_status(download_status_db, j, "downloading",
              Counters(1, 0, 0, 25, <<>>))
    /\ pc' = [pc EXCEPT ![j] = "download"]
    /\ inflight' = [inflight EXCEPT ![j] = @ \cup {local[j].i}]
    /\ RecordCalls(j)
    /\ UNCHANGED <<songs, local, playlist_files, resp, cancelled_ids, call_vars>>

\* a variant of the except clause that counts the failure but appends no entry
except_Exception_NoEntry(loc, song, r) == [loc EXCEPT !.failed = @ + 1]

\* except Exception (lines 1080-1088): count the song as failed and append
\* its entry to downloaded_songs; the job record is not written
except_Exception(loc, song, r) ==
    [loc EXCEPT !.failed = @ + 1,
                !.downloaded_songs = Append(@, Outcome(song, r))]

\* a variant in which an exception ends the loop
after_except_Abort(j, i) == Len(songs[j])

\* the except clause lies inside the for body: the loop goes on with the
\* next index
after_except(j, i) == i + 1

\* what the except clause records of an exception raised inside the try
Raised == [raised |-> TRUE, success |-> FALSE, msg |-> <<"unexpected exception">>]

\* The print of line 1037 or of line 1047 raises: the song was counted as
\* completed or failed already (loc), the except clause of lines 1080-1088
\* counts it as failed and appends its entry, the update of lines 1066-1074
\* and the sleep of line 1078 are skipped and the loop goes on.
LogRaises(j, loc, inf) ==
    EnterIteration(j, after_except(j, loc.i), download_status_db,
        except_Exception(loc, songs[j][loc.i + 1], Raised), inf)

\* the awaited download_song_async call ends (lines 1017-1088); logged tells
\* whether the print that follows the count of a returned call goes through
\* (for the success of a single-song job that print comes after the sleep
\* of line 1035); the field enhanced_song of the locals is a history of
\* what enrich_metadata returned within the call
download_returns(j, kind, providers, logged) ==
    /\ pc[j] = "download"
    /\ logged \/ kind # "raised"
    /\ logged \/ ~(kind = "ok" /\ Len(songs[j]) = 1)
    /\  LET song == songs[j][local[j].i + 1]
            enhanced_song == IF Enriched(kind)
                             THEN enrich_metadata(song, providers).result
                             ELSE local[j].enhanced_song
            loc == [local[j] EXCEPT !.enhanced_song = enhanced_song]
            r == DownloadResult(song, kind, enhanced_song)
            inf == inflight[j] \ {loc.i}
        IN  /\ IF r.raised
               THEN \* except Exception: count and record, no status update, next song
                    EnterIteration(j, after_except(j, loc.i), download_status_db,
                        except_Exception(loc, song, r), inf)
               ELSE IF ~logged
               THEN LogRaises(j, IF r.success THEN [loc EXCEPT !.completed = @ + 1]
                                               ELSE [loc EXCEPT !.failed = @ + 1], inf)
               ELSE IF r.success
               THEN IF Len(songs[j]) = 1
                    THEN /\ download_status_db' =
                              update_download_status(download_status_db, j, "downloading",
                                  Counters(1, 0, 0, 75, <<>>))
                         /\ pc' = [pc EXCEPT ![j] = "sleep_75"]
                         /\ local' = [local EXCEPT ![j] =
                                        [loc EXCEPT !.completed = @ + 1,
                                                    !.result_msg = r.msg]]
                         /\ inflight' = [inflight EXCEPT ![j] = inf]
                         /\ playlist_files' = playlist_files
                    ELSE FinishSong(j, download_status_db,
                            [loc EXCEPT !.completed = @ + 1,
                                        !.downloaded_songs = Append(@, Outcome(song, r))],
                            inf)
               ELSE FinishSong(j, download_status_db,
                        [loc EXCEPT !.failed = @ + 1,
                                    !.downloaded_songs = Append(@, Outcome(song, r))],
                        inf)
            /\ RecordCalls(j)
    /\ UNCHANGED <<songs, resp, cancelled_ids, call_vars>>

\* single song, after the second sleep(0.5): the outcome and the final status
after_sleep_75(j, logged) ==
    LET loc == local[j]
        song == songs[j][loc.i + 1]
        r == [raised |-> FALSE, success |-> TRUE, msg |-> loc.result_msg]
    IN  /\ pc[j] = "sleep_75"
        /\ IF logged
           THEN FinishSong(j, download_status_db,
                    [loc EXCEPT !.downloaded_songs = Append(@, Outcome(song, r))],
                    inflight[j])
           ELSE LogRaises(j, loc, inflight[j])
        /\ RecordCalls(j)
    /\ UNCHANGED <<songs, resp, cancelled_ids, call_vars>>

\* multi-song job, after the inter-song sleep(2): the next iteration
after_sleep_next(j) ==
    /\ pc[j] = "sleep_next"
    /\ EnterIteration(j, local[j].i + 1, download_status_db, local[j], inflight[j])
    /\ RecordCalls(j)
    /\ UNCHANGED <<songs, resp, cancelled_ids, call_vars>>

-----------------------------------------------------------------------------
(* One download_song_async call, query by query (lines 87-204)             *)
(*                                                                         *)
(* The call awaits the tool run of each query, the back-off after a 403    *)
(* and the delay between two queries; enrich_metadata and fix_metadata are *)
(* synchronous and run within the step of the tool's return.  The output   *)
(* file is one of: "absent", "stale" (a non-empty file an earlier download *)
(* left under the same name), "empty" (zero bytes), "partial", "audio"     *)
(* (a complete download), "tagged" (audio with the tags written).          *)

\* the songs the ladder is started with: without a query, with a query
\* override, and with an empty query
LadderSongs ==
    { [title |-> <<"bad guy">>, artist |-> <<"Billie Eilish", " ">>,
       album |-> <<"Unknown Album">>],
      [title |-> <<"T1">>, artist |-> <<"Daft Punk">>, album |-> <<"Discovery">>,
       query |-> <<"Daft Punk", " \"", "T1", "\" song official audio">>],
      [title |-> <<"T2">>, artist |-> <<"Daft Punk">>, album |-> <<"Discovery">>,
       query |-> <<>>] }

\* what the output path holds before the call
InitialFiles == {"absent", "stale"}

\* How one subprocess.run of yt-dlp can end: it exits with a return code,
\* having written the output file or not, it runs into the 600 s timeout, or
\* starting it raises.  returncode is -1 where the run gave no return code.
ToolOutcomes ==
    { [kind |-> "exit", returncode |-> 0, written |-> "audio", stderr |-> <<>>],
      [kind |-> "exit", returncode |-> 0, written |-> "empty", stderr |-> <<>>],
      [kind |-> "exit", returncode |-> 0, written |-> "nothing", stderr |-> <<>>],
      [kind |-> "exit", returncode |-> 1, written |-> "nothing", stderr |-> <<>>],
      [kind |-> "exit", returncode |-> 1, written |-> "partial",
       stderr |-> <<"ERROR: ", "unable to download video data", " ">>],
      [kind |-> "exit", returncode |-> 1, written |-> "nothing",
       stderr |-> <<"ERROR: HTTP Error ", "403", ": ", "Forbidden">>],
      [kind |-> "timeout", returncode |-> -1, written |-> "partial", stderr |-> <<>>],
      [kind |-> "raise", returncode |-> -1, written |-> "nothing",
       stderr |-> <<"[Errno 2] No such file or directory: 'yt-dlp'">>] }

\* How the ffmpeg runs of fix_metadata can end: the version check finds no
\* ffmpeg or times out; the tagging run exits 0 and the replace works or
\* fails, exits non-zero, times out, or raises.
FfmpegOutcomes ==
    {"missing", "version_timeout", "ok", "replace_fails", "nonzero", "timeout", "raises"}

\* the output file after a tool run (--force-overwrites)
file_after(file, outcome) == IF outcome.written = "nothing" THEN file ELSE outcome.written

\* os.path.exists(output_path)
exists(file) == file # "absent"

\* a variant of the size test that accepts any file
has_content_Any(file) == TRUE

\* os.path.getsize(output_path) > 0
has_content(file) == file \in {"stale", "partial", "audio", "tagged"}

\* the outcomes of the version check after which fix_metadata returns at once
VersionOutcomes == {"missing", "version_timeout"}

\* fix_metadata from the end of the tagging run of ffmpeg (lines 443-484):
\* whether it reports success, and the file it leaves where it found file;
\* os.replace puts the tagged copy over whatever is at the path
ffmpeg_run_ends(file, ffmpeg) ==
    IF ffmpeg = "ok" THEN [success |-> TRUE, file |-> "tagged"]
    ELSE IF ffmpeg = "replace_fails" THEN [success |-> FALSE, file |-> file]
    ELSE IF ffmpeg = "nonzero" THEN [success |-> FALSE, file |-> file]
    ELSE \* subprocess.TimeoutExpired, or any other exception
         [success |-> TRUE, file |-> file]

\* fix_metadata (lines 413-484) on a path nothing else writes: whether it
\* reports success, and the file it leaves
fix_metadata(file, ffmpeg) ==
    IF ~exists(file) THEN [success |-> FALSE, file |-> file]
    ELSE IF ffmpeg \in VersionOutcomes
    THEN [success |-> TRUE, file |-> file]
    ELSE ffmpeg_run_ends(file, ffmpeg)

\* the ladder variable while no call is followed
IdleLadder ==
    [pc |-> "idle", song |-> <<>>, i |-> 0, last_error |-> <<>>, file |-> "absent",
     tried |-> <<>>, last |-> <<>>, found |-> "absent", ffmpeg |-> "not run",
     result |-> <<>>]

\* The call up to its first await: the query list, last_error, and the tool
\* run of the first query.
StartLadder(song, file) ==
    [pc |-> "tool", song |-> song, i |-> 0,
     last_error |-> <<"No search queries succeeded">>, file |-> file,
     tried |-> <<search_queries(song)[1]>>, last |-> <<>>, found |-> "absent",
     ffmpeg |-> "not run", result |-> <<>>]

\* the end of loop iteration i (lines 200-204): the delay before the next
\* query, or the return after the last one
end_of_attempt(l) ==
    IF l.i < Len(search_queries(l.song)) - 1
    THEN [l EXCEPT !.pc = "sleep_next"]
    ELSE [l EXCEPT !.pc = "returned",
                   !.result = [success |-> FALSE,
                               msg |-> AllFailed(l.song, l.last_error)]]

\* lines 185-190: remove what is left at the output path
cleanup(l) == [l EXCEPT !.file = "absent"]

\* lines 152-155: the run exited 0 and the output path holds a file with
\* content
succeeded(file, outcome) ==
    /\ outcome.kind = "exit"
    /\ outcome.returncode = 0
    /\ exists(file)
    /\ has_content(file)

\* The attempt of query i after a tool run that did not succeed (lines
\* 161-198), up to the next await or the return.
after_failed_run(l, outcome) ==
    LET error_msg == IF outcome.stderr # <<>> THEN strip(outcome.stderr)
                     ELSE <<"Unknown error">>
        failed == [l EXCEPT !.last_error =
                               detailed_error(outcome.returncode, outcome.stderr, <<>>)]
    IN  IF outcome.kind = "timeout"
        THEN \* except subprocess.TimeoutExpired: the clean-up is skipped
             end_of_attempt([l EXCEPT !.last_error = <<"Download timeout (10 minutes)">>])
        ELSE IF outcome.kind = "raise"
        THEN \* except Exception: last_error = str(e), the clean-up is skipped
             end_of_attempt([l EXCEPT !.last_error = outcome.stderr])
        ELSE IF outcome.returncode = 0 /\ exists(l.file)
        THEN \* the empty file is removed; last_error is left as it was
             end_of_attempt(cleanup(l))
        ELSE IF Contains(error_msg, "403") \/ Contains(error_msg, "Forbidden")
        THEN [failed EXCEPT !.pc = "sleep_403"]
        ELSE end_of_attempt(cleanup(failed))

\* lines 159-160: the call returns what fix_metadata reported
return_fixed(l, fixed, ffmpeg) ==
    [l EXCEPT !.pc = "returned",
              !.ffmpeg = ffmpeg,
              !.file = fixed.file,
              !.result = [success |-> fixed.success,
                          msg |-> IF fixed.success THEN output_path(l.song)
                                  ELSE <<"Metadata fix failed">>]]

\* The code that follows the awaited tool run of query i (lines 152-198) up
\* to the next await or the return, on the locals l of the call, l.file being
\* what the code finds at the output path and nothing else writing the path
\* meanwhile: ffmpeg is how fix_metadata's runs end if the attempt gets that
\* far.
after_tool_run(l, outcome, ffmpeg) ==
    LET l1 == [l EXCEPT !.last = outcome, !.found = l.file]
    IN  IF succeeded(l.file, outcome)
        THEN \* enrich_metadata, fix_metadata, return
             return_fixed(l1, fix_metadata(l.file, ffmpeg), ffmpeg)
        ELSE after_failed_run(l1, outcome)

\* One loop iteration of a call that has the output path to itself, from
\* the awaited tool run (lines 146-150) to the next await or the return:
\* nothing else touches the path while the tool runs, so the code finds
\* what the run left there.
tool_returns(l, outcome, ffmpeg) ==
    after_tool_run([l EXCEPT !.file = file_after(l.file, outcome)], outcome, ffmpeg)

\* the awaited tool run of query i ends
ladder_tool_returns(outcome) ==
    /\ ladder.pc = "tool"
    /\ \E ffmpeg \in FfmpegOutcomes : ladder' = tool_returns(ladder, outcome, ffmpeg)
    /\ UNCHANGED <<job_vars, resolving, enriching, sharing, emitting>>

\* after the back-off of 5 s that follows a 403: the clean-up, then the end
\* of the iteration
ladder_after_sleep_5 ==
    /\ ladder.pc = "sleep_403"
    /\ ladder' = end_of_attempt(cleanup(ladder))
    /\ UNCHANGED <<job_vars, resolving, enriching, sharing, emitting>>

\* after the delay of 2 s between two queries: the tool run of the next query
ladder_after_sleep_2 ==
    /\ ladder.pc = "sleep_next"
    /\ ladder' = [ladder EXCEPT !.pc = "tool",
                                !.i = @ + 1,
                                !.tried = Append(@, search_queries(ladder.song)[ladder.i + 2])]
    /\ UNCHANGED <<job_vars, resolving, enriching, sharing, emitting>>

-----------------------------------------------------------------------------
(* One enrich_metadata call (SpecEnrich) *)

\* the call enrich_metadata(song, filepath): argument is the dict the caller
\* holds, input what it held when the call was made
StartEnriching(song, providers) ==
    [pc |-> "call", input |-> song, argument |-> song, providers |-> providers,
     result |-> <<>>, consulted |-> <<>>]

\* enrich_metadata returns: every write went to the copy
enrich_metadata_returns ==
    /\ enriching.pc = "call"
    /\ LET r == enrich_metadata(enriching.argument, enriching.providers)
       IN  enriching' = [enriching EXCEPT !.pc = "returned",
                                          !.result = r.result,
                                          !.consulted = r.consulted]
    /\ UNCHANGED <<job_vars, ladder, resolving, sharing, emitting>>

-----------------------------------------------------------------------------
(* Two single-song jobs for the same artist and title.  Every runner uses  *)
(* the one output directory of line 971 and the file name holds artist and *)
(* title only (line 90): the two download_song_async calls work on one     *)
(* path.  Each call is followed with its own locals; the file is shared.   *)
(* The tool is a subprocess run in a thread (lines 147-150): it writes the *)
(* path while the call awaits it and the other job's coroutine runs, so    *)
(* the write and the code after the await are two steps.  After a run that *)
(* succeeded the call waits twice more before it returns, without an await *)
(* (lines 158-159): in the requests of enrich_metadata (position "enrich") *)
(* and in the ffmpeg run of fix_metadata (position "ffmpeg").  The event   *)
(* loop is blocked meanwhile, so the other job's coroutine does not run,   *)
(* but the other job's tool does and may write the path.                   *)

Sharers == {1, 2}

\* the song record download_song_endpoint builds for both requests
SharedSong ==
    [title |-> <<"bad guy">>, artist |-> <<"Billie Eilish">>,
     album |-> <<"Unknown Album">>,
     query |-> <<"Billie Eilish", " ", "bad guy", " official audio lyrics">>]

\* what a tool run can put at the output path
ToolWrites == { o.written : o \in ToolOutcomes } \ {"nothing"}

\* both runners have reached the tool run of their song's query; written is
\* what the running tool of a call has put at the path so far, seen is a
\* history of the file at the moment a job's completed status was written,
\* ended tells whose task has come to its end
StartSharing ==
    [pc |-> "run", file |-> "absent",
     call |-> [c \in Sharers |-> StartLadder(SharedSong, "absent")],
     written |-> [c \in Sharers |-> "nothing"],
     status |-> [c \in Sharers |-> "downloading"],
     songs |-> [c \in Sharers |-> <<>>],
     seen |-> [c \in Sharers |-> "absent"],
     ended |-> [c \in Sharers |-> FALSE]]

\* the locals of call c with the file as it is now
SharedCall(c) == [sharing.call[c] EXCEPT !.file = sharing.file]

\* The runner of job c once its call has come to a result (lines 1019-1078):
\* a failure is recorded at once with the final status error, unless the
\* print of line 1047 raises (logged is FALSE), which skips the update and
\* ends the task with the record as it was; a success shows progress 75 and
\* sleeps before the outcome is recorded.
SharedAfterCall(c, l, logged) ==
    IF l.pc # "returned"
    THEN [sharing EXCEPT !.file = l.file, !.call[c] = l]
    ELSE IF l.result.success
    THEN [sharing EXCEPT !.file = l.file, !.call[c] = l, !.status[c] = "processing"]
    ELSE IF logged
    THEN [sharing EXCEPT !.file = l.file, !.call[c] = l, !.status[c] = "error",
                         !.songs[c] = <<Outcome(l.song,
                                          [raised |-> FALSE, success |-> FALSE,
                                           msg |-> l.result.msg])>>,
                         !.ended[c] = TRUE]
    ELSE [sharing EXCEPT !.file = l.file, !.call[c] = l, !.ended[c] = TRUE]

\* the running tool of job c's call writes the output path
\* (--force-overwrites), whatever is there
shared_tool_writes(c, written) ==
    /\ sharing.pc = "run"
    /\ sharing.call[c].pc = "tool"
    /\ sharing.written[c] = "nothing"
    /\ sharing' = [sharing EXCEPT !.file = written, !.written[c] = written]
    /\ UNCHANGED <<job_vars, ladder, resolving, enriching, emitting>>

\* no call other than c's waits in a synchronous request or subprocess run,
\* which would keep the event loop from resuming c's coroutine
LoopFree(c) ==
    \A d \in Sharers \ {c} : sharing.call[d].pc \notin {"enrich", "ffmpeg"}

\* the tool run of job c's call ends, having written what outcome.written
\* says: the code after the await works on the file as it is by now, and
\* after the checks of lines 152-155 enters enrich_metadata
shared_tool_returns(c, outcome, logged) ==
    /\ sharing.pc = "run"
    /\ sharing.call[c].pc = "tool"
    /\ LoopFree(c)
    /\ outcome.written = sharing.written[c]
    /\ LET l == [SharedCall(c) EXCEPT !.last = outcome, !.found = sharing.file]
       IN  sharing' = IF succeeded(sharing.file, outcome)
                      THEN [sharing EXCEPT !.call[c] = [l EXCEPT !.pc = "enrich"]]
                      ELSE SharedAfterCall(c, after_failed_run(l, outcome), logged)
    /\ UNCHANGED <<job_vars, ladder, resolving, enriching, emitting>>

\* enrich_metadata has returned and fix_metadata starts (lines 159, 415-438):
\* without a file or without ffmpeg it returns at once, else it waits for
\* the tagging run of ffmpeg
shared_fix_metadata_starts(c, ffmpeg, logged) ==
    /\ sharing.pc = "run"
    /\ sharing.call[c].pc = "enrich"
    /\ LET l == SharedCall(c)
       IN  sharing' = IF ~exists(sharing.file) \/ ffmpeg \in VersionOutcomes
                      THEN SharedAfterCall(c,
                               return_fixed(l, fix_metadata(sharing.file, ffmpeg), ffmpeg),
                               logged)
                      ELSE [sharing EXCEPT !.call[c] = [l EXCEPT !.pc = "ffmpeg"]]
    /\ UNCHANGED <<job_vars, ladder, resolving, enriching, emitting>>

\* the tagging run of ffmpeg ends (lines 443-484) and the call returns
\* (line 160)
shared_ffmpeg_ends(c, ffmpeg, logged) ==
    /\ sharing.pc = "run"
    /\ sharing.call[c].pc = "ffmpeg"
    /\ ffmpeg \notin VersionOutcomes
    /\ sharing' = SharedAfterCall(c,
                      return_fixed(SharedCall(c),
                                   ffmpeg_run_ends(sharing.file, ffmpeg), ffmpeg),
                      logged)
    /\ UNCHANGED <<job_vars, ladder, resolving, enriching, emitting>>

\* job c's call after the back-off that follows a 403: the clean-up, then
\* the return
shared_after_sleep_5(c, logged) ==
    /\ sharing.pc = "run"
    /\ sharing.call[c].pc = "sleep_403"
    /\ LoopFree(c)
    /\ sharing' = SharedAfterCall(c, end_of_attempt(cleanup(SharedCall(c))), logged)
    /\ UNCHANGED <<job_vars, ladder, resolving, enriching, emitting>>

\* job c after the sleep that follows its success: the outcome with the
\* file path and the final status completed, unless the print of line 1037
\* raises (logged is FALSE), which skips the update and ends the task
shared_after_sleep_75(c, logged) ==
    /\ sharing.pc = "run"
    /\ sharing.status[c] = "processing"
    /\ ~sharing.ended[c]
    /\ LoopFree(c)
    /\ sharing' = IF logged
                  THEN [sharing EXCEPT
                           !.status[c] = "completed",
                           !.seen[c] = sharing.file,
                           !.songs[c] = <<Outcome(sharing.call[c].song,
                                            [raised |-> FALSE, success |-> TRUE,
                                             msg |-> sharing.call[c].result.msg])>>,
                           !.ended[c] = TRUE]
                  ELSE [sharing EXCEPT !.ended[c] = TRUE]
    /\ UNCHANGED <<job_vars, ladder, resolving, enriching, emitting>>

-----------------------------------------------------------------------------
(* The endpoints *)

\* uuid.uuid4(): an id no earlier request was given
FreshId(db) == Cardinality(DOMAIN db) + 1

\* ids a client may ask about: 0 was never handed out
RequestIds == 0..MaxJobs

Response(op, id, code) == [op |-> op, id |-> id, code |-> code]

NoLocals == [i |-> 0, completed |-> 0, failed |-> 0,
             downloaded_songs |-> <<>>, result_msg |-> <<>>, enhanced_song |-> <<>>,
             emitter |-> "not called"]

\* POST /download/song
download_song_endpoint(song) ==
    LET download_id == FreshId(download_status_db)
        song_dict == [title |-> strip(song.title),
                      artist |-> strip(song.artist),
                      album |-> IF song.album # <<>> THEN strip(song.album)
                                ELSE <<"Unknown Album">>,
                      query |-> strip(song.artist) \o <<" ">> \o strip(song.title)
                                    \o <<" official audio lyrics">>]
    IN  /\ download_id \in JobIds
        /\ download_status_db' =
              update_download_status(download_status_db, download_id, "starting",
                  [total_songs |-> 1, completed_songs |-> 0])
        /\ songs' = [songs EXCEPT ![download_id] = <<song_dict>>]
        /\ pc' = [pc EXCEPT ![download_id] = "queued"]
        /\ resp' = Response("download_song", download_id, 200)
        /\ UNCHANGED <<local, inflight, playlist_files, cancelled_ids, invocations, call_vars>>

\* POST /download/album
download_album_endpoint(album_req, dir) ==
    LET download_id == FreshId(download_status_db)
        searching == update_download_status(download_status_db, download_id,
                         "searching_tracks", <<>>)
        tracks == get_album_tracks(strip(album_req.artist), strip(album_req.album), dir)
    IN  /\ download_id \in JobIds
        /\ IF tracks = <<>>
           THEN /\ download_status_db' = searching
                /\ resp' = Response("download_album", download_id, 404)
                /\ UNCHANGED <<songs, pc>>
           ELSE IF Len(tracks) > MaxAlbumTracks
           THEN /\ download_status_db' = searching
                /\ resp' = Response("download_album", download_id, 400)
                /\ UNCHANGED <<songs, pc>>
           ELSE /\ download_status_db' =
                      update_download_status(searching, download_id, "starting",
                          [total_songs |-> Len(tracks), completed_songs |-> 0,
                           songs |-> <<>>])
                /\ songs' = [songs EXCEPT ![download_id] = tracks]
                /\ pc' = [pc EXCEPT ![download_id] = "queued"]
                /\ resp' = Response("download_album", download_id, 200)
        /\ UNCHANGED <<local, inflight, playlist_files, cancelled_ids, invocations, call_vars>>

\* the fields of StatusResponse that come from the record; the others the
\* record holds (failed_songs, playlist_path) are not part of the response
StatusFields == {"status", "progress", "total_songs", "completed_songs", "songs", "error"}

\* GET /status/{download_id}: read-only, the response for a given table.  A
\* field the record lacks is null in the response: it is left out here.
get_download_status_endpoint(db, download_id) ==
    LET status_data == get_download_status(db, download_id)
    IN  IF status_data = <<>>
        THEN [code |-> 404]
        ELSE [code |-> 200, download_id |-> download_id]
                 @@ [k \in StatusFields \cap DOMAIN status_data |-> status_data[k]]

\* DELETE /download/{download_id}
cancel_download_endpoint(download_id) ==
    LET cancelled == cancel_download_status(download_status_db, download_id)
    IN  /\ download_status_db' = cancelled[2]
        /\ resp' = Response("cancel", download_id,
                       IF cancelled[1] THEN 200
                       ELSE IF get_download_status(cancelled[2], download_id) # <<>>
                       THEN 400 ELSE 404)
        /\ cancelled_ids' = IF cancelled[1] THEN cancelled_ids \cup {download_id}
                            ELSE cancelled_ids
        /\ UNCHANGED <<songs, pc, local, inflight, playlist_files, invocations, call_vars>>

\* a variant of the playlist endpoint without the check of the song count
get_playlist_endpoint_AnyCount(db, download_id) ==
    LET status_data == get_download_status(db, download_id)
    IN  IF status_data = <<>> THEN [code |-> 404]
        ELSE IF status_data.status # "completed" THEN [code |-> 400]
        ELSE [code |-> 200,
              playlist_url |-> <<"/static/playlists/", ToString(download_id), ".m3u">>]

\* GET /download/{download_id}/playlist: read-only, the response for a given table
get_playlist_endpoint(db, download_id) ==
    LET status_data == get_download_status(db, download_id)
        listed == IF "songs" \in DOMAIN status_data THEN status_data.songs ELSE <<>>
    IN  IF status_data = <<>> THEN [code |-> 404]
        ELSE IF status_data.status # "completed" THEN [code |-> 400]
        ELSE IF Len(listed) <= 1 THEN [code |-> 400]
        ELSE [code |-> 200,
              playlist_url |-> <<"/static/playlists/", ToString(download_id), ".m3u">>]

-----------------------------------------------------------------------------
(* The specification *)

Init ==
    /\ download_status_db = <<>>
    /\ songs = [j \in JobIds |-> <<>>]
    /\ pc = [j \in JobIds |-> "none"]
    /\ local = [j \in JobIds |-> NoLocals]
    /\ inflight = [j \in JobIds |-> {}]
    /\ playlist_files = <<>>
    /\ resp = Response("none", 0, 0)
    /\ cancelled_ids = {}
    /\ invocations = [j \in JobIds |-> <<>>]
    /\ ladder = IdleLadder
    /\ resolving = Idle
    /\ enriching = Idle
    /\ sharing = Idle
    /\ emitting = Idle

\* Jobs of one or two songs and the endpoints, interleaved; the providers
\* asked while a song is enriched are out of reach.
Next ==
    \/ \E song \in SongRequests : download_song_endpoint(song)
    \/ \E album_req \in AlbumRequests, dir \in DirectoryResults :
          download_album_endpoint(album_req, dir)
    \/ \E download_id \in RequestIds : cancel_download_endpoint(download_id)
    \/ \E j \in JobIds : process_start(j)
    \/ \E j \in JobIds : after_sleep_10(j)
    \/ \E j \in JobIds, kind \in DownloadKinds, logged \in BOOLEAN :
          download_returns(j, kind, OutOfReach, logged)
    \/ \E j \in JobIds, logged \in BOOLEAN : after_sleep_75(j, logged)
    \/ \E j \in JobIds : after_sleep_next(j)

Spec == Init /\ [][Next]_vars

\* One download_song_async call on its own: any of the ladder songs, with the
\* output path free or taken by an earlier file.
InitLadder ==
    /\ download_status_db = <<>>
    /\ songs = [j \in JobIds |-> <<>>]
    /\ pc = [j \in JobIds |-> "none"]
    /\ local = [j \in JobIds |-> NoLocals]
    /\ inflight = [j \in JobIds |-> {}]
    /\ playlist_files = <<>>
    /\ resp = Response("none", 0, 0)
    /\ cancelled_ids = {}
    /\ invocations = [j \in JobIds |-> <<>>]
    /\ \E song \in LadderSongs, file \in InitialFiles : ladder = StartLadder(song, file)
    /\ resolving = Idle
    /\ enriching = Idle
    /\ sharing = Idle
    /\ emitting = Idle

NextLadder ==
    \/ \E outcome \in ToolOutcomes : ladder_tool_returns(outcome)
    \/ ladder_after_sleep_5
    \/ ladder_after_sleep_2

SpecLadder == InitLadder /\ [][NextLadder]_vars

\* One get_album_tracks call on its own, for any request and any behaviour
\* of the release directory, and the album request that makes the same call.
InitTracks ==
    /\ download_status_db = <<>>
    /\ songs = [j \in JobIds |-> <<>>]
    /\ pc = [j \in JobIds |-> "none"]
    /\ local = [j \in JobIds |-> NoLocals]
    /\ inflight = [j \in JobIds |-> {}]
    /\ playlist_files = <<>>
    /\ resp = Response("none", 0, 0)
    /\ cancelled_ids = {}
    /\ invocations = [j \in JobIds |-> <<>>]
    /\ ladder = IdleLadder
    /\ \E req \in ResolverRequests, dir \in ResolverDirectories :
          resolving = StartResolving(req, dir)
    /\ enriching = Idle
    /\ sharing = Idle
    /\ emitting = Idle

NextTracks ==
    \/ get_album_tracks_returns
    \/ download_album_endpoint([artist |-> resolving.artist, album |-> resolving.album],
                               resolving.dir)

SpecTracks == InitTracks /\ [][NextTracks]_vars

\* One enrich_metadata call on its own, for any of the records and any
\* behaviour of the four providers.
InitEnrich ==
    /\ download_status_db = <<>>
    /\ songs = [j \in JobIds |-> <<>>]
    /\ pc = [j \in JobIds |-> "none"]
    /\ local = [j \in JobIds |-> NoLocals]
    /\ inflight = [j \in JobIds |-> {}]
    /\ playlist_files = <<>>
    /\ resp = Response("none", 0, 0)
    /\ cancelled_ids = {}
    /\ invocations = [j \in JobIds |-> <<>>]
    /\ ladder = IdleLadder
    /\ resolving = Idle
    /\ \E song \in EnrichSongs, providers \in EnrichProviders :
          enriching = StartEnriching(song, providers)
    /\ sharing = Idle
    /\ emitting = Idle

NextEnrich == enrich_metadata_returns

SpecEnrich == InitEnrich /\ [][NextEnrich]_vars

\* One job from the request to the end of its task: a single song, an album
\* of 1..MaxTracks listed tracks, an album the release directory has no
\* release of, which gives the placeholder tracks, or an album whose lookup
\* raises, which gives the whole-album record.  At most MaxTroubles of its
\* songs fail, raise or meet a print that raises.
NoRelease == [search |-> "nomatch", detail |-> "ok", media |-> <<>>]

AlbumDirectories ==
    { [search |-> "match", detail |-> "ok", media |-> Listing(n)] : n \in 1..MaxTracks }
    \cup { NoRelease, [search |-> "raise", detail |-> "ok", media |-> <<>>] }

InitAlbum == Init

NextAlbum ==
    \/ /\ download_status_db = <<>>
       /\ \E song \in SongRequests : download_song_endpoint(song)
    \/ /\ download_status_db = <<>>
       /\ \E album_req \in AlbumRequests, dir \in AlbumDirectories :
             download_album_endpoint(album_req, dir)
    \/ \E j \in JobIds : process_start(j)
    \/ \E j \in JobIds : after_sleep_10(j)
    \/ \E j \in JobIds, kind \in DownloadKinds, providers \in SongEnrichments,
             logged \in BOOLEAN :
          /\ (kind = "ok" /\ logged) \/ local[j].failed < MaxTroubles
          /\ download_returns(j, kind, providers, logged)
    \/ \E j \in JobIds, logged \in BOOLEAN : after_sleep_75(j, logged)
    \/ \E j \in JobIds : after_sleep_next(j)

SpecAlbum == InitAlbum /\ [][NextAlbum]_vars

\* Two single-song jobs for the same artist and title, from the tool runs of
\* their calls to their final status.
InitShared ==
    /\ download_status_db = <<>>
    /\ songs = [j \in JobIds |-> <<>>]
    /\ pc = [j \in JobIds |-> "none"]
    /\ local = [j \in JobIds |-> NoLocals]
    /\ inflight = [j \in JobIds |-> {}]
    /\ playlist_files = <<>>
    /\ resp = Response("none", 0, 0)
    /\ cancelled_ids = {}
    /\ invocations = [j \in JobIds |-> <<>>]
    /\ ladder = IdleLadder
    /\ resolving = Idle
    /\ enriching = Idle
    /\ sharing = StartSharing
    /\ emitting = Idle

NextShared ==
    \/ \E c \in Sharers, written \in ToolWrites : shared_tool_writes(c, written)
    \/ \E c \in Sharers, outcome \in ToolOutcomes, logged \in BOOLEAN :
          shared_tool_returns(c, outcome, logged)
    \/ \E c \in Sharers, ffmpeg \in FfmpegOutcomes, logged \in BOOLEAN :
          shared_fix_metadata_starts(c, ffmpeg, logged)
    \/ \E c \in Sharers, ffmpeg \in FfmpegOutcomes, logged \in BOOLEAN :
          shared_ffmpeg_ends(c, ffmpeg, logged)
    \/ \E c \in Sharers, logged \in BOOLEAN : shared_after_sleep_5(c, logged)
    \/ \E c \in Sharers, logged \in BOOLEAN : shared_after_sleep_75(c, logged)

SpecShared == InitShared /\ [][NextShared]_vars

-----------------------------------------------------------------------------
(* The playlist step of one runner, taken again under one name (SpecEmit) *)

\* the id of the job whose playlist step is followed
EmitId == 1

\* the outcome lists a runner can have built for the listed tracks of an
\* album of 2..MaxEmitted tracks: one outcome per track, of any kind of return
EmitLists ==
    UNION { LET tracks == get_album_tracks(<<"Daft Punk">>, <<"Discovery">>,
                              [search |-> "match", detail |-> "ok", media |-> Listing(n)])
            IN  { [k \in 1..n |->
                      Outcome(tracks[k], DownloadResult(tracks[k], kinds[k], tracks[k]))] :
                  kinds \in [1..n -> DownloadKinds] }
            : n \in 2..MaxEmitted }

\* previous is a history: the files and the emitter before the latest call
StartEmitting(downloaded_songs) ==
    [pc |-> "emit", downloaded_songs |-> downloaded_songs, files |-> <<>>,
     emitter |-> "not called",
     previous |-> [files |-> <<>>, emitter |-> "not called"]]

\* Lines 1094-1099 for the outcome list as it stands: the filter, then
\* create_m3u_playlist for the job's playlist name, ending in any of the
\* ways it can end.
playlist_step ==
    /\ emitting.pc = "emit"
    /\ LET successful_songs == successful(emitting.downloaded_songs)
           lines == create_m3u_playlist(successful_songs)
       IN  /\ wants_playlist(Len(emitting.downloaded_songs), Len(successful_songs))
           /\ successful_songs # <<>>
           /\ \E how \in EmitterOutcomes(lines) :
                emitting' =
                 [emitting EXCEPT
                     !.files = emitted(emitting.files, playlist_name(EmitId), lines, how),
                     !.emitter = IF how.kind = "returned" THEN "returned" ELSE "raised",
                     !.previous = [files |-> emitting.files,
                                   emitter |-> emitting.emitter]]
    /\ UNCHANGED <<job_vars, ladder, resolving, enriching, sharing>>

InitEmit ==
    /\ download_status_db = <<>>
    /\ songs = [j \in JobIds |-> <<>>]
    /\ pc = [j \in JobIds |-> "none"]
    /\ local = [j \in JobIds |-> NoLocals]
    /\ inflight = [j \in JobIds |-> {}]
    /\ playlist_files = <<>>
    /\ resp = Response("none", 0, 0)
    /\ cancelled_ids = {}
    /\ invocations = [j \in JobIds |-> <<>>]
    /\ ladder = IdleLadder
    /\ resolving = Idle
    /\ enriching = Idle
    /\ sharing = Idle
    /\ emitting \in { StartEmitting(downloaded_songs) : downloaded_songs \in EmitLists }

NextEmit == playlist_step

SpecEmit == InitEmit /\ [][NextEmit]_vars

-----------------------------------------------------------------------------
(* Properties *)

Terminal == {"completed", "error", "cancelled"}

Created == DOMAIN download_status_db

\* the runner of job j has started
Started(j) == pc[j] \notin {"none", "queued"}

\* the number of entries of a song list with status "completed"
RECURSIVE CountCompleted(_)
CountCompleted(list) ==
    IF list = <<>> THEN 0
    ELSE (IF Head(list).status = "completed" THEN 1 ELSE 0) + CountCompleted(Tail(list))

CounterKeys == {"total_songs", "completed_songs", "failed_songs", "progress", "songs"}

\* C1: once a job's status is completed, error or cancelled, no later step
\* changes its record.
C1_TerminalRecordFrozen ==
    [][\A j \in Created :
          download_status_db[j].status \in Terminal
              => download_status_db'[j] = download_status_db[j]]_vars

\* C2: a cancel request answers 200 and sets the status to cancelled exactly
\* when the job's status is starting or downloading; for a job in any other
\* status it answers 400 and leaves the table unchanged; for an unknown id it
\* answers 404 and leaves the table unchanged.
C2_CancelContract ==
    [][\A id \in RequestIds :
          cancel_download_endpoint(id) =>
              IF id \notin Created
              THEN resp'.code = 404 /\ download_status_db' = download_status_db
              ELSE IF download_status_db[id].status \in {"starting", "downloading"}
              THEN /\ resp'.code = 200
                   /\ download_status_db'[id].status = "cancelled"
                   /\ \A k \in Created \ {id} :
                          download_status_db'[k] = download_status_db[k]
              ELSE resp'.code = 400 /\ download_status_db' = download_status_db]_vars

\* C2 witness: a job was cancelled while downloading, and a second cancel of
\* it was just refused.
C2_Witness ==
    /\ resp.op = "cancel" /\ resp.code = 400
    /\ resp.id \in cancelled_ids
    /\ download_status_db[resp.id].status = "cancelled"
    /\ pc[resp.id] = "download"

\* C3: after a job has been cancelled, the runner starts no acquisition for
\* any further song of the job.
C3_NoAcquisitionAfterCancel ==
    [][\A j \in JobIds : j \in cancelled_ids => inflight'[j] \subseteq inflight[j]]_vars

\* C4: an accepted cancel keeps the outcome list, the total, completed and
\* failed counters and the progress of the record; only the status differs.
C4_CancelKeepsOutcomes ==
    [][\A id \in RequestIds :
          (cancel_download_endpoint(id) /\ resp'.code = 200) =>
              \A k \in CounterKeys \cap DOMAIN download_status_db[id] :
                  /\ k \in DOMAIN download_status_db'[id]
                  /\ download_status_db'[id][k] = download_status_db[id][k]]_vars

\* C5: when the runner of a job that was not cancelled has finished, the
\* status is completed if the failed count is 0 and error otherwise.
C5_FinalStatus ==
    \A j \in JobIds :
        (pc[j] = "done" /\ j \notin cancelled_ids) =>
            download_status_db[j].status =
                (IF local[j].failed = 0 THEN "completed" ELSE "error")

\* C6: in every snapshot completed + failed <= total, and a snapshot whose
\* status is completed or error carries counters with completed + failed = total.
C6_CountersBounded ==
    \A j \in Created :
        LET r == download_status_db[j]
            completed == IF "completed_songs" \in DOMAIN r THEN r.completed_songs ELSE 0
            failed == IF "failed_songs" \in DOMAIN r THEN r.failed_songs ELSE 0
        IN  /\ "total_songs" \in DOMAIN r => completed + failed <= r.total_songs
            /\ r.status \in {"completed", "error"} =>
                  /\ {"total_songs", "completed_songs", "failed_songs"} \subseteq DOMAIN r
                  /\ r.completed_songs + r.failed_songs = r.total_songs

\* C7: from one snapshot of a job to the next, progress, the completed count
\* and the failed count never decrease, and progress stays within 0..100.
C7_CountersMonotone ==
    [][\A j \in Created :
          /\ \A k \in {"progress", "completed_songs", "failed_songs"}
                       \cap DOMAIN download_status_db[j] :
                 /\ k \in DOMAIN download_status_db'[j]
                 /\ download_status_db'[j][k] >= download_status_db[j][k]
          /\ "progress" \in DOMAIN download_status_db'[j]
                 => download_status_db'[j].progress \in 0..100]_vars

\* C8: a job whose runner has run to its end is in a terminal status (the
\* runner is the only writer left, so a job it leaves in starting or
\* downloading stays there).
C8_RunnerEndsTerminal ==
    \A j \in JobIds : pc[j] = "done" => download_status_db[j].status \in Terminal

\* C9: every snapshot after the runner has started carries status, total,
\* completed, failed, progress and the outcome list, with completed the number
\* of completed outcomes of the list and failed the number of the others.
C9_SnapshotConsistent ==
    \A j \in JobIds :
        Started(j) =>
            LET r == download_status_db[j]
            IN  /\ CounterKeys \subseteq DOMAIN r
                /\ r.completed_songs = CountCompleted(r.songs)
                /\ r.failed_songs = Len(r.songs) - CountCompleted(r.songs)

\* C10: at most one download_song_async call of a job is awaited at a time,
\* and while the call for the song at index k is awaited the runner's outcome
\* list holds exactly one entry for each of the songs at indices 0..k-1.
C10_Sequential ==
    \A j \in JobIds :
        /\ Cardinality(inflight[j]) <= 1
        /\ \A k \in inflight[j] :
              /\ k = local[j].i
              /\ Len(local[j].downloaded_songs) = k
              /\ \A m \in 1..k :
                    local[j].downloaded_songs[m].title = songs[j][m].title

\* C10 witness: the second song of a job is being acquired, the first one's
\* outcome is recorded.
C10_Witness ==
    \E j \in JobIds :
        /\ inflight[j] = {1}
        /\ Len(local[j].downloaded_songs) = 1

\* the calls of download_song_async job j has made that have ended
CallsEnded(j) == Len(invocations[j]) - Cardinality(inflight[j])

C12_EverySongAcquiredOnce ==
    \A j \in JobIds :
        j \notin cancelled_ids =>
            /\ Len(invocations[j]) <= Len(songs[j])
            /\ \A n \in 1..Len(invocations[j]) : invocations[j][n] = n - 1
            /\ pc[j] = "done" => Len(invocations[j]) = Len(songs[j])

\* the same for the jobs whose task got past the creation of the output
\* directory: the loop calls download_song_async once for every song
C12_LoopAcquiresEverySong ==
    \A j \in JobIds :
        j \notin cancelled_ids /\ j \in Created =>
            /\ Len(invocations[j]) <= Len(songs[j])
            /\ \A n \in 1..Len(invocations[j]) : invocations[j][n] = n - 1
            /\ (pc[j] = "done" /\ download_status_db[j].status # "starting")
                  => Len(invocations[j]) = Len(songs[j])

\* C12 witness: a two-song job that was not cancelled has finished; its first
\* song raised, its second failed, and both were acquired.
C12_Witness ==
    \E j \in JobIds :
        /\ j \notin cancelled_ids
        /\ pc[j] = "done"
        /\ Len(songs[j]) = 2
        /\ local[j].downloaded_songs[1].status = "error"
        /\ local[j].downloaded_songs[2].status = "failed"
        /\ invocations[j] = <<0, 1>>

\* C13: an exception raised while a song is processed is recorded in the job
\* record as that song's outcome with status failed: every outcome the runner
\* holds or the record lists has status completed or failed, and at every
\* await of a started, not cancelled job the record lists the outcomes the
\* runner holds.
C13_RaisedRecordedAsFailed ==
    \A j \in JobIds :
        /\ \A k \in 1..Len(local[j].downloaded_songs) :
              local[j].downloaded_songs[k].status \in {"completed", "failed"}
        /\ (Started(j) /\ j \notin cancelled_ids) =>
              /\ "songs" \in DOMAIN download_status_db[j]
              /\ download_status_db[j].songs = local[j].downloaded_songs

\* the record of job j carries a playlist path
HasPlaylistPath(j) ==
    j \in Created /\ "playlist_path" \in DOMAIN download_status_db[j]

\* C14 as stated: once the runner has finished, the record carries a playlist
\* path if and only if the job has more than one song and at least one of
\* them completed.
C14_PlaylistIffMultiAndCompleted ==
    \A j \in JobIds :
        pc[j] = "done" =>
            (HasPlaylistPath(j) <=> (Len(songs[j]) > 1 /\ local[j].completed > 0))

IsCompleted(outcome) == outcome.status = "completed"

\* C15: whenever the playlist step of a runner has written the playlist, the
\* file under the job's playlist name holds the two header lines and then,
\* for the n-th outcome with status completed of the runner's outcome list,
\* the annotation line and the file name of that outcome, and nothing else,
\* whatever the file held before; and a step that returns after a step that
\* returned leaves the files as that one left them.
C15_PlaylistListsCompleted ==
    (emitting.pc = "emit" /\ emitting.emitter = "returned") =>
        /\ playlist_name(EmitId) \in DOMAIN emitting.files
        /\ LET lines == emitting.files[playlist_name(EmitId)]
               done == SelectSeq(emitting.downloaded_songs, IsCompleted)
           IN  /\ Len(lines) = 2 + 2 * Len(done)
               /\ lines[1] = <<"#EXTM3U">>
               /\ lines[2] = <<"#PLAYLIST:Tunes4R Download Service">>
               /\ \A n \in 1..Len(done) :
                     /\ lines[2 * n + 1] =
                           <<"#EXTINF:240,">> \o done[n].artist \o <<" - ">>
                               \o done[n].title
                     /\ lines[2 * n + 2] =
                           done[n].artist \o <<" - ">> \o done[n].title \o <<".mp3">>
        /\ emitting.previous.emitter = "returned"
              => emitting.files = emitting.previous.files

\* C15 witness: the playlist of a list whose first outcome is failed and whose
\* second and third are completed has been written over the playlist an
\* earlier step wrote.
C15_Witness ==
    /\ emitting.pc = "emit"
    /\ emitting.emitter = "returned"
    /\ emitting.previous.emitter = "returned"
    /\ playlist_name(EmitId) \in DOMAIN emitting.previous.files
    /\ Len(emitting.downloaded_songs) = 3
    /\ emitting.downloaded_songs[1].status = "failed"
    /\ emitting.downloaded_songs[2].status = "completed"
    /\ emitting.downloaded_songs[3].status = "completed"

\* the playlist step has written the playlist over what a step that raised
\* had left of it
C15_OverLeftover ==
    /\ emitting.pc = "emit"
    /\ emitting.emitter = "returned"
    /\ emitting.previous.emitter = "raised"
    /\ playlist_name(EmitId) \in DOMAIN emitting.previous.files
    /\ emitting.previous.files[playlist_name(EmitId)] # <<>>
    /\ emitting.previous.files # emitting.files

\* C16: a playlist request for an unknown id is answered 404, for a job whose
\* status is not completed 400, for a completed job of one song 400, and for
\* a completed job of more than one song 200 with the playlist reference.
\* The handler only reads the table: its answer is a function of the table.
C16_PlaylistRequest ==
    \A download_id \in RequestIds :
        LET answer == get_playlist_endpoint(download_status_db, download_id)
        IN  IF download_id \notin Created THEN answer = [code |-> 404]
            ELSE IF download_status_db[download_id].status # "completed"
            THEN answer = [code |-> 400]
            ELSE IF Len(songs[download_id]) <= 1 THEN answer = [code |-> 400]
            ELSE /\ answer.code = 200
                 /\ answer.playlist_url =
                       <<"/static/playlists/", ToString(download_id), ".m3u">>

\* C16 witness: a single-song job has completed successfully and a playlist
\* request for it is answered 400.
C16_Witness ==
    \E j \in Created :
        /\ Len(songs[j]) = 1
        /\ pc[j] = "done"
        /\ download_status_db[j].status = "completed"
        /\ download_status_db[j].completed_songs = 1
        /\ get_playlist_endpoint(download_status_db, j).code = 400

\* C17: a background run exists only for a song list of 1 to 20 songs, an
\* album request answered 400 has started no run, and a job that was created
\* and not yet started or cancelled has status starting, total the length of
\* its song list, and completed, failed and progress all 0.
C17_CreatedJobStartsAtZero ==
    \A j \in JobIds :
        /\ pc[j] # "none" => Len(songs[j]) \in 1..MaxAlbumTracks
        /\ (resp.op = "download_album" /\ resp.id = j /\ resp.code = 400) =>
              pc[j] = "none"
        /\ (pc[j] = "queued" /\ j \notin cancelled_ids) =>
              LET r == download_status_db[j]
              IN  /\ r.status = "starting"
                  /\ r.total_songs = Len(songs[j])
                  /\ r.completed_songs = 0
                  /\ "failed_songs" \in DOMAIN r /\ r.failed_songs = 0
                  /\ "progress" \in DOMAIN r /\ r.progress = 0

-----------------------------------------------------------------------------
(* Properties of one download_song_async call *)

HasOverride(song) == "query" \in DOMAIN song /\ song.query # <<>>

\* the five queries in their documented order
FixedOrder(song) ==
    LET artist == strip(song.artist)
        title == strip(song.title)
    IN  << artist \o <<" ">> \o title \o <<" official">>,
           artist \o <<" ">> \o title,
           title \o <<" ">> \o artist,
           artist \o <<" ">> \o title \o <<" audio">>,
           artist \o <<" ">> \o title \o <<" official audio lyrics">> >>

ExpectedQueries(song) == IF HasOverride(song) THEN <<song.query>> ELSE FixedOrder(song)

NonEmptyFile(file) == file \notin {"absent", "empty"}

\* the latest tool run exited with code 0 and left a non-empty output file
Yielded ==
    /\ ladder.last # <<>>
    /\ ladder.last.kind = "exit" /\ ladder.last.returncode = 0
    /\ NonEmptyFile(ladder.found)

\* C18: the queries tried so far are the first ones of the five in their
\* fixed order for a song without a query override and the override alone
\* for a song with one; a call that returns without success has tried them
\* all; a tool run that exits 0 with a non-empty output file ends the call,
\* and a call that has ended tries no further query.
C18_LadderOrder ==
    /\ [](ladder.pc # "idle" =>
            LET expected == ExpectedQueries(ladder.song)
            IN  /\ Len(ladder.tried) <= Len(expected)
                /\ ladder.tried = SubSeq(expected, 1, Len(ladder.tried))
                /\ Yielded => ladder.pc = "returned"
                /\ (ladder.pc = "returned" /\ ~Yielded) => ladder.tried = expected)
    /\ [][ladder.pc = "returned" => ladder'.tried = ladder.tried]_vars

\* C18 witness: for a song without override the third query yielded the file
\* and the call has returned completed.
C18_Witness ==
    /\ ladder.pc = "returned"
    /\ ~HasOverride(ladder.song)
    /\ Len(ladder.tried) = 3
    /\ Yielded
    /\ ladder.result.success

\* the latest tool run exited with code 0 and left a zero-byte output file
ZeroByteAttempt ==
    /\ ladder.last # <<>>
    /\ ladder.last.kind = "exit" /\ ladder.last.returncode = 0
    /\ ladder.found = "empty"

C20_TagFailureIsFailure ==
    ladder.ffmpeg # "not run" =>
        /\ ladder.ffmpeg # "ok" =>
              ladder.result = [success |-> FALSE, msg |-> <<"Metadata fix failed">>]
        /\ ladder.result.success => (ladder.ffmpeg = "ok" /\ ladder.file = "tagged")

-----------------------------------------------------------------------------
(* Properties of one get_album_tracks call *)

\* a placeholder record: a generic numbered title and a query
IsPlaceholder(track) ==
    /\ Head(track.title) \in {"Track", "Song"}
    /\ track.query # <<>>
    /\ "track_number" \notin DOMAIN track

\* the job the album request has created
AlbumJob == FreshId(<<>>)

\* C21: when the directory answers the search without a matching release,
\* get_album_tracks returns exactly 12 placeholder records, and the album
\* request is answered 200 and creates a job with total 12.
C21_NoMatchGivesTwelve ==
    resolving.pc # "idle" /\ resolving.dir.search = "nomatch" =>
        /\ resolving.pc = "returned" =>
              /\ Len(resolving.tracks) = 12
              /\ \A k \in 1..12 :
                    /\ IsPlaceholder(resolving.tracks[k])
                    /\ resolving.tracks[k].artist = strip(resolving.artist)
                    /\ resolving.tracks[k].album = strip(resolving.album)
        /\ resp.op = "download_album" =>
              /\ resp.code = 200
              /\ pc[AlbumJob] = "queued"
              /\ Len(songs[AlbumJob]) = 12
              /\ download_status_db[AlbumJob].status = "starting"
              /\ download_status_db[AlbumJob].total_songs = 12

\* C21 witness: the directory had no match, the call has returned 12 records
\* and the album request has created its job.
C21_Witness ==
    /\ resolving.pc = "returned"
    /\ resolving.dir.search = "nomatch"
    /\ Len(resolving.tracks) = 12
    /\ resp.op = "download_album"
    /\ download_status_db[AlbumJob].total_songs = 12

\* the directory could not be reached: the search or the detail fetch raised
Unreachable(dir) ==
    dir.search = "raise" \/ (dir.search = "match" /\ dir.detail = "raise")

\* C22: when the release directory cannot be reached, get_album_tracks
\* returns the placeholder list of the no-match case (12 records with generic
\* numbered titles), not the single whole-album record.
C22_UnreachableGivesPlaceholders ==
    (resolving.pc = "returned" /\ Unreachable(resolving.dir)) =>
        /\ Len(resolving.tracks) = 12
        /\ \A k \in 1..Len(resolving.tracks) : IsPlaceholder(resolving.tracks[k])

\* C23: whatever the directory does, get_album_tracks returns at least one
\* record and every record carries a non-empty query; the album request is
\* never answered 404 for want of tracks.
C23_NeverEmpty ==
    /\ resolving.pc = "returned" =>
          /\ Len(resolving.tracks) >= 1
          /\ \A k \in 1..Len(resolving.tracks) :
                /\ "query" \in DOMAIN resolving.tracks[k]
                /\ resolving.tracks[k].query # <<>>
    /\ resp.op = "download_album" =>
          /\ resp.code # 404
          /\ resp.code = 200 => Len(songs[AlbumJob]) >= 1

\* C23 witness: the directory matched a release whose listing has tracks but
\* none with a recording, and the call has returned a non-empty list.
C23_Witness ==
    /\ resolving.pc = "returned"
    /\ resolving.dir.search = "match" /\ resolving.dir.detail = "ok"
    /\ Len(resolving.dir.media) = 2
    /\ Len(resolving.dir.media[1]) = 2
    /\ \A m \in 1..2 : \A k \in 1..Len(resolving.dir.media[m]) :
          ~resolving.dir.media[m][k].recording
    /\ Len(resolving.tracks) >= 1

\* the tracks of a listing, media in order and tracks in order within each
RECURSIVE Flatten(_)
Flatten(media) == IF media = <<>> THEN <<>> ELSE Head(media) \o Flatten(Tail(media))

HasRecording(track) == track.recording

\* C30: when the directory matches a release whose listing has at least one
\* track with a recording, get_album_tracks returns one record per such
\* track, in listing order, with the trimmed artist and album of the call,
\* the track's title and the query '{artist} "{title}" song official audio'.
C30_OneRecordPerListedTrack ==
    LET dir == resolving.dir
        listed == SelectSeq(Flatten(dir.media), HasRecording)
        artist == strip(resolving.artist)
        album == strip(resolving.album)
    IN  (/\ resolving.pc = "returned"
         /\ dir.search = "match" /\ dir.detail = "ok"
         /\ Len(listed) >= 1) =>
            /\ Len(resolving.tracks) = Len(listed)
            /\ \A n \in 1..Len(listed) :
                  LET record == resolving.tracks[n]
                  IN  /\ record.title = listed[n].title
                      /\ record.artist = artist
                      /\ record.album = album
                      /\ record.query =
                            artist \o <<" \"">> \o listed[n].title
                                \o <<"\" song official audio">>
                      /\ ~IsPlaceholder(record)

\* C30 witness: the first medium of the listing holds a track without a
\* recording and one with, the second two with; three records were returned.
C30_Witness ==
    /\ resolving.pc = "returned"
    /\ resolving.dir.search = "match" /\ resolving.dir.detail = "ok"
    /\ Len(resolving.dir.media) = 2
    /\ Len(resolving.dir.media[1]) = 2 /\ Len(resolving.dir.media[2]) = 2
    /\ ~resolving.dir.media[1][1].recording
    /\ resolving.dir.media[1][2].recording
    /\ resolving.dir.media[2][1].recording /\ resolving.dir.media[2][2].recording
    /\ Len(resolving.tracks) = 3

-----------------------------------------------------------------------------
(* Properties of enrich_metadata (SpecEnrich) *)

Failed(response) == response.kind \in {"raise", "status"}

\* the field is in both records with one value, or in neither
SameField(a, b, field) ==
    /\ field \in DOMAIN a <=> field \in DOMAIN b
    /\ field \in DOMAIN a => a[field] = b[field]

\* the fields the recording directory supplies, the cover archive's among them
DirectoryFields == {"title", "artist", "album", "genre", "track_number", "duration_ms",
                    "cover_url"}

\* the call ended on the exception handler
Aborted ==
    \/ enriching.providers.directory.kind = "raise"
    \/ /\ enriching.providers.directory.kind = "ok"
       /\ enriching.providers.directory.recordings # <<>>
       /\ "tags" \in DOMAIN Head(enriching.providers.directory.recordings)
       /\ tags_raise(Head(enriching.providers.directory.recordings).tags)

\* C24: enrich_metadata never narrows a record.  Every key of the argument is
\* a key of the record returned; a field whose providers all failed has the
\* argument's value (lyrics are then the argument's or the other lyric
\* site's); a call that ends on the exception handler returns the argument
\* as it was; and the caller's dict is after the call what it was before.
C24_EnrichNeverNarrows ==
    enriching.pc = "returned" =>
        LET input == enriching.input
            result == enriching.result
            providers == enriching.providers
        IN  /\ DOMAIN input \subseteq DOMAIN result
            /\ Failed(providers.directory) =>
                   \A field \in DirectoryFields : SameField(result, input, field)
            /\ Failed(providers.cover) => SameField(result, input, "cover_url")
            /\ Failed(providers.ovh) =>
                   \/ SameField(result, input, "lyrics")
                   \/ /\ ~Failed(providers.lrclib)
                      /\ "lyrics" \in DOMAIN result
                      /\ result.lyrics = lyrics_lrclib(providers.lrclib)
            /\ Failed(providers.lrclib) =>
                   \/ SameField(result, input, "lyrics")
                   \/ /\ ~Failed(providers.ovh)
                      /\ "lyrics" \in DOMAIN result
                      /\ result.lyrics = lyrics_ovh(providers.ovh)
            /\ Aborted => result = input
            /\ enriching.argument = input

\* a call where the directory answered a status other than 200 and the cover
\* archive failed, for a record with an album and a query: the record
\* returned has them as they were, and the lyrics lrclib.net gave
C24_Witness ==
    /\ enriching.pc = "returned"
    /\ enriching.providers.directory.kind = "status"
    /\ Failed(enriching.providers.ovh)
    /\ "query" \in DOMAIN enriching.input
    /\ enriching.result.query = enriching.input.query
    /\ enriching.result.album = enriching.input.album
    /\ "lyrics" \in DOMAIN enriching.result
    /\ "lyrics" \notin DOMAIN enriching.input

\* a failed provider answered as one that has no data
NoData(providers) ==
    [directory |-> IF Failed(providers.directory)
                   THEN [kind |-> "ok", recordings |-> <<>>] ELSE providers.directory,
     cover |-> IF Failed(providers.cover)
               THEN [kind |-> "ok", images |-> <<>>] ELSE providers.cover,
     ovh |-> IF Failed(providers.ovh)
             THEN [kind |-> "ok", data |-> <<>>] ELSE providers.ovh,
     lrclib |-> IF Failed(providers.lrclib)
                THEN [kind |-> "ok", results |-> <<>>] ELSE providers.lrclib]

\* C25: a timeout or a status other than 200 of a provider is no data from
\* that provider only.  The record returned is the one the call returns when
\* the failed providers answer with no data instead, and the lyric sites are
\* asked whatever the recording directory did.
C25_FailureIsNoData ==
    enriching.pc = "returned" =>
        /\ enriching.result =
              enrich_metadata(enriching.input, NoData(enriching.providers)).result
        /\ Failed(enriching.providers.directory) =>
              \E k \in 1..Len(enriching.consulted) : enriching.consulted[k] = "lyrics.ovh"

-----------------------------------------------------------------------------
(* Properties of one job followed to its end (SpecAlbum) *)

\* this step wrote the status of lines 1066-1074 for job j: a record with a
\* progress and the outcomes so far
SongSnapshotWritten(j) ==
    /\ j \in DOMAIN download_status_db
    /\ download_status_db'[j] # download_status_db[j]
    /\ "progress" \in DOMAIN download_status_db'[j]
    /\ download_status_db'[j].songs # <<>>

TwelveSongProgress == <<8, 16, 25, 33, 41, 50, 58, 66, 75, 83, 91, 100>>

\* C26: the record written after the song at index i of a job of total songs
\* has progress floor((i+1)*100/total) and i+1 outcomes; for a job of 12
\* songs the values are 8, 16, 25, 33, 41, 50, 58, 66, 75, 83, 91, 100.
C26_ProgressAfterSong ==
    [][\A j \in JobIds :
          SongSnapshotWritten(j) =>
              LET snapshot == download_status_db'[j]
                  i == local[j].i
                  total == Len(songs[j])
              IN  /\ snapshot.progress * total <= (i + 1) * 100
                  /\ (snapshot.progress + 1) * total > (i + 1) * 100
                  /\ Len(snapshot.songs) = i + 1
                  /\ snapshot.total_songs = total
                  /\ total = 12 => snapshot.progress = TwelveSongProgress[i + 1]]_vars

\* a job of 12 placeholder tracks after its fifth song: progress 41 and five
\* outcomes, one of them of a song whose download raised
C26_Witness ==
    \E j \in Created :
        /\ Len(songs[j]) = 12
        /\ pc[j] = "sleep_next"
        /\ local[j].i = 4
        /\ download_status_db[j].progress = 41
        /\ Len(download_status_db[j].songs) = 5
        /\ \E k \in 1..5 : download_status_db[j].songs[k].status = "error"

-----------------------------------------------------------------------------
(* Properties of a single-song job (Spec) *)

\* job j was created by POST /download/song: one song, with the query the
\* endpoint builds
IsSongJob(j) ==
    /\ Len(songs[j]) = 1
    /\ songs[j][1].query[Len(songs[j][1].query)] = " official audio lyrics"

\* the file names the two requests of SongRequests are to end in, written
\* out: the trimmed artist, " - ", the trimmed title, ".mp3"
SongRequestName(title) ==
    IF title = <<"bad guy">> THEN <<"Billie Eilish", " - ", "bad guy", ".mp3">>
    ELSE <<"/", "tmp/AC", " - ", "Intro", ".mp3">>

\* path is the file called name: under the output directory, or name itself
\* where that is an absolute path
IsFileNamed(path, name) ==
    IF Head(name) = "/" THEN path = name ELSE path = <<"downloaded_music/">> \o name

\* C27: a single-song job starts with total 1, and its record with status
\* completed or error has exactly one outcome: a completed one whose file is
\* '{artist} - {title}.mp3' of the request's trimmed artist and title,
\* whatever title and artist enrich_metadata returned, or a failed one with
\* a non-empty error message.
C27_SingleSongJob ==
    \A j \in Created :
        IsSongJob(j) =>
            LET snapshot == download_status_db[j]
            IN  /\ snapshot.status = "starting" => snapshot.total_songs = 1
                /\ snapshot.status \in {"completed", "error"} =>
                      /\ snapshot.total_songs = 1
                      /\ Len(snapshot.songs) = 1
                /\ snapshot.status = "completed" =>
                      /\ snapshot.songs[1].status = "completed"
                      /\ IsFileNamed(snapshot.songs[1].filepath,
                                     SongRequestName(songs[j][1].title))
                /\ snapshot.status = "error" =>
                      /\ snapshot.songs[1].status = "failed"
                      /\ snapshot.songs[1].error # <<>>

\* a single-song job that ended completed with its one outcome, after
\* enrich_metadata had returned the song under another title and artist
C27_Witness ==
    \E j \in Created :
        /\ IsSongJob(j)
        /\ pc[j] = "done"
        /\ download_status_db[j].status = "completed"
        /\ Len(download_status_db[j].songs) = 1
        /\ local[j].enhanced_song # <<>>
        /\ local[j].enhanced_song.title # songs[j][1].title
        /\ local[j].enhanced_song.artist # songs[j][1].artist

\* the same for the request whose file name is an absolute path
C27_WitnessAbsolute ==
    \E j \in Created :
        /\ IsSongJob(j)
        /\ download_status_db[j].status = "completed"
        /\ Head(songs[j][1].artist) = "/"
        /\ download_status_db[j].songs[1].filepath
              = <<"/", "tmp/AC", " - ", "Intro", ".mp3">>
        /\ local[j].enhanced_song # <<>>
        /\ local[j].enhanced_song.title # songs[j][1].title

\* a single-song job that ended in error
C27_WitnessError ==
    \E j \in Created :
        /\ IsSongJob(j)
        /\ pc[j] = "done"
        /\ download_status_db[j].status = "error"
        /\ download_status_db[j].songs[1].status = "failed"

-----------------------------------------------------------------------------
(* Properties of the failed attempts of one download_song_async call       *)
(* (SpecLadder)                                                            *)

\* the call returned after its last query failed
AllQueriesFailed ==
    /\ ladder.pc = "returned"
    /\ ~ladder.result.success
    /\ ladder.ffmpeg = "not run"

\* C28: after a failed attempt no file is left at the output path when the
\* next query starts (during the delay before it and at its start) or when
\* the call returns after the last query.
C28_NoFileAfterFailedAttempt ==
    (\/ ladder.pc = "sleep_next"
     \/ ladder.pc = "tool" /\ ladder.i > 0
     \/ AllQueriesFailed)
        => ~exists(ladder.file)

\* the error the code words for an attempt that ended as outcome did
AttemptError(outcome) ==
    IF outcome.kind = "timeout" THEN <<"Download timeout (10 minutes)">>
    ELSE IF outcome.kind = "raise" THEN outcome.stderr
    ELSE detailed_error(outcome.returncode, outcome.stderr, <<>>)

\* the last attempt ended with exit 0 and a zero-byte file
LastAttemptEmpty == ladder.last.returncode = 0 /\ ladder.found = "empty"

\* the text of the message after 'Last error: '
LastErrorPart(msg) == SubSeq(msg, 4, Len(msg))

\* C29: when every query failed the call returns failed, and the message
\* names the number of queries tried, 1 with an override and 5 otherwise,
\* and the error of the last attempt: the tool's error, the timeout or the
\* exception, and for a zero-byte file an error of its own, which is neither
\* the initial 'No search queries succeeded' nor the error of another way of
\* failing.
C29_MessageNamesLastError ==
    AllQueriesFailed =>
        LET msg == ladder.result.msg
        IN  /\ SubSeq(msg, 1, 3) =
                  <<"No suitable video found after trying ",
                    IF HasOverride(ladder.song) THEN "1" ELSE "5",
                    " different search queries. Last error: ">>
            /\ Len(ladder.tried) = IF HasOverride(ladder.song) THEN 1 ELSE 5
            /\ IF LastAttemptEmpty
               THEN /\ LastErrorPart(msg) # <<"No search queries succeeded">>
                    /\ \A outcome \in ToolOutcomes :
                          LastErrorPart(msg) # AttemptError(outcome)
               ELSE LastErrorPart(msg) = AttemptError(ladder.last)

-----------------------------------------------------------------------------
(* Properties of the placeholder list (SpecTracks) *)

\* the call returned the placeholder list
ReturnedPlaceholders ==
    /\ resolving.pc = "returned"
    /\ Len(resolving.tracks) = 12
    /\ \A k \in 1..12 : IsPlaceholder(resolving.tracks[k])

\* C33: the 12 placeholder records have pairwise distinct titles and pairwise
\* distinct queries: no two of them search for the same thing.
C33_PlaceholdersDistinct ==
    ReturnedPlaceholders =>
        \A k, m \in 1..12 :
            k # m =>
                /\ resolving.tracks[k].title # resolving.tracks[m].title
                /\ resolving.tracks[k].query # resolving.tracks[m].query

-----------------------------------------------------------------------------
(* Properties of a rejected album request (Spec) *)

\* C34: a rejected album request leaves no record in the job table: after an
\* answer 404 or 400 the allocated id has no record, and no record is in
\* status searching_tracks once the request has been answered.
C34_RejectedAlbumLeavesNoRecord ==
    /\ (resp.op = "download_album" /\ resp.code \in {400, 404}) =>
           resp.id \notin DOMAIN download_status_db
    /\ \A j \in Created : download_status_db[j].status # "searching_tracks"

-----------------------------------------------------------------------------
(* Properties of the song records of a job (SpecAlbum) *)

\* C32: every song record of a job created by the song request or the album
\* request has a non-empty query, so the ladder of each of its songs is that
\* one query and never the five patterns.
C32_EveryJobSongHasOverride ==
    \A j \in Created :
        \A k \in 1..Len(songs[j]) :
            /\ "query" \in DOMAIN songs[j][k]
            /\ songs[j][k].query # <<>>
            /\ Len(search_queries(songs[j][k])) = 1
            /\ search_queries(songs[j][k]) = <<songs[j][k].query>>

\* a job of the 12 placeholder tracks whose first song the runner has
\* handed to download_song_async and recorded
C32_Witness ==
    \E j \in Created :
        /\ Len(songs[j]) = 12
        /\ invocations[j] # <<>>
        /\ local[j].downloaded_songs # <<>>
        /\ songs[j][1].query # <<>>

-----------------------------------------------------------------------------
(* Properties of two jobs that share an output path (SpecShared) *)

\* C31: a completed outcome of either job refers to an existing non-empty
\* file: the file is there when the job's completed status is written, and
\* no later clean-up of the other job removes or empties it.
C31_CompletedFileStays ==
    sharing.pc = "run" =>
        \A c \in Sharers :
            sharing.status[c] = "completed" =>
                /\ sharing.songs[c][1].status = "completed"
                /\ sharing.songs[c][1].filepath = output_path(SharedSong)
                /\ NonEmptyFile(sharing.seen[c])
                /\ NonEmptyFile(sharing.file)

====
